---- MODULE Spec2Model ----
(***************************************************************************)
(* A model of the test-optimization plugin of dd-test-py (ddtestopt):      *)
(*   - the retry protocol that the pytest plugin runs for one collected    *)
(*     item (internal/pytest/plugin.py) with the retry policies of         *)
(*     internal/retry_handlers.py and the policy list installed by         *)
(*     internal/session_manager.py                      (specification Spec)*)
(*   - the result tree node TestItem of internal/recorder.py              *)
(*                                                   (specification SpecTree)*)
(*   - the event queue of TestOptWriter of internal/writer.py             *)
(*                                                 (specification SpecWriter)*)
(***************************************************************************)
EXTENDS Integers, Sequences, FiniteSets, TLC

VARIABLES
    \* ---- retry protocol of one item (plugin.py, session_manager.py)
    pc,              \* position of the orchestrating thread in the item's protocol
    settings,        \* SessionManager.settings (remote settings)
    known_tests,     \* SessionManager.known_tests
    collected_tests, \* SessionManager.collected_tests
    retry_handlers,  \* SessionManager.retry_handlers (ordered list of policies)
    test_properties, \* SessionManager.test_properties of the item's TestRef
    test,            \* the Test node of the item (attributes, status, test_runs)
    stored_reports,  \* reports_by_nodeid[item.nodeid], None when there is no entry
    excinfo_by_report, \* TestOptPlugin.excinfo_by_report: the saved exception info, by report
    retry_reports,   \* the local `reports` of _do_retries
    retry_longrepr,  \* the local `longrepr` of _do_retries
    logged,          \* the reports given to pytest_runtest_logreport, in order
    executed,        \* the report group of every execution of the item, in order
    item,            \* the pytest item (markers and user properties set by the gate)
    retry_handler,   \* the local retry_handler of _do_test_runs / _do_retries
    calls,           \* which handler methods have been invoked for the test
    selections,      \* one entry per _check_applicable_retry_handlers call
    put_items,       \* items handed to writer.put_item, in order
    \* ---- result tree (recorder.py)
    nodes,           \* the TestItem nodes that exist (paths of child names)
    status,          \* TestItem.status of every node
    explicit,        \* the status last given to set_status, for every node
    objects,         \* how many TestItem objects were ever made for every node
    ret,             \* the last operation applied to the tree and what it returned
    \* ---- writer (writer.py)
    lock,            \* owner of TestOptWriter.lock
    lists,           \* the list objects ever bound to TestOptWriter.events
    self_events,     \* the list object TestOptWriter.events refers to
    ppc,             \* position of every producer thread
    pref,            \* the list object a producer loaded from self.events
    pnext,           \* how many events a producer has enqueued
    cpc,             \* position of the consumer (flush) thread
    cref,            \* the consumer's local `events`
    sent,            \* the batches passed to _send_events, in order
    failed,          \* which of them _send_events did not deliver
    nflush,          \* how many times the flush interval has expired
    should_finish,   \* TestOptWriter.should_finish (a threading.Event)
    mpc,             \* position of the thread that calls finish()
    session_items,   \* pytest's session.items, in the order they are run
    cursor,          \* the index of the item a hook is working on
    tests,           \* the Test objects of the tree, by path
    finish_calls,    \* how many times finish() was called, by node
    callbacks,       \* the on_new_* callbacks discover_test has invoked
    git_tags,        \* SessionManager.git_tags: the keys get_git_tags() returned
    is_xdist_worker, \* whether pytest runs this process as an xdist worker
    api_calls,       \* the catalog calls of SessionManager.__init__, with what they returned
    raised           \* the exception that left SessionManager.__init__, if any

protoVars == <<pc, settings, known_tests, collected_tests, retry_handlers,
               test_properties, test, stored_reports, excinfo_by_report, retry_reports, retry_longrepr, logged,
               executed, item, retry_handler, calls, selections, put_items>>
treeVars == <<nodes, status, explicit, objects, ret>>
writerVars == <<lock, lists, self_events, ppc, pref, pnext, cpc, cref, sent, failed,
                nflush, should_finish, mpc>>
consVars == <<git_tags, is_xdist_worker, api_calls, raised>>
sessVars == <<session_items, cursor, tests, finish_calls, callbacks, consVars>>
vars == <<protoVars, treeVars, writerVars, sessVars>>

----------------------------------------------------------------------------
(* TestStatus (recorder.py) *)

PASS == "pass"
FAIL == "fail"
SKIP == "skip"
TestStatus == {PASS, FAIL, SKIP}
None == "None"

----------------------------------------------------------------------------
(* Retry policies (retry_handlers.py) *)

ATF == "AttemptToFixHandler"
EFD == "EarlyFlakeDetectionHandler"
ATR == "AutoTestRetriesHandler"
Handlers == {ATF, EFD, ATR}

RetryCap == 6
AttemptToFixRetries == 3

last_test_run(t) == t.test_runs[Len(t.test_runs)]

RECURSIVE status_counts(_, _)
status_counts(runs, s) ==
    IF runs = <<>> THEN 0
    ELSE (IF Head(runs).status = s THEN 1 ELSE 0) + status_counts(Tail(runs), s)

IsRetryTags(reason) == {<<"test.is_retry", "true">>, <<"test.retry_reason", reason>>}

AutoTestRetriesHandler_should_apply(t) == FALSE

AutoTestRetriesHandler_should_retry(t) ==
    last_test_run(t).status = FAIL /\ Len(t.test_runs) < RetryCap

AutoTestRetriesHandler_get_final_status(t) == last_test_run(t).status

AutoTestRetriesHandler_get_tags_for_test_run(run) ==
    IF run.attempt_number = 0 THEN {} ELSE IsRetryTags("auto_test_retry")

EarlyFlakeDetectionHandler_should_apply(t) == TRUE

(* mutant: the cap compared with <= *)
Mutant_should_retry_off_by_one(t) == Len(t.test_runs) <= RetryCap

EarlyFlakeDetectionHandler_should_retry(t) == Len(t.test_runs) < RetryCap

(* mutant: failures looked at before passes *)
Mutant_get_final_status_fail_first(t) ==
    IF status_counts(t.test_runs, FAIL) > 0 THEN FAIL
    ELSE IF status_counts(t.test_runs, PASS) > 0 THEN PASS
    ELSE SKIP

EarlyFlakeDetectionHandler_get_final_status(t) ==
    IF status_counts(t.test_runs, PASS) > 0 THEN PASS
    ELSE IF status_counts(t.test_runs, FAIL) > 0 THEN FAIL
    ELSE SKIP

(* mutant: the first attempt is tagged like a retry *)
Mutant_get_tags_every_attempt(run) == IsRetryTags("early_flake_detection")

EarlyFlakeDetectionHandler_get_tags_for_test_run(run) ==
    IF run.attempt_number = 0 THEN {} ELSE IsRetryTags("early_flake_detection")

AttemptToFixHandler_should_apply(t) == t.is_attempt_to_fix

AttemptToFixHandler_should_retry(t) == Len(t.test_runs) < AttemptToFixRetries

AttemptToFixHandler_get_final_status(t) ==
    IF \E i \in DOMAIN t.test_runs : t.test_runs[i].status = PASS THEN PASS
    ELSE IF \E i \in DOMAIN t.test_runs : t.test_runs[i].status = FAIL THEN FAIL
    ELSE SKIP

AttemptToFixHandler_get_tags_for_test_run(run) ==
    IF run.attempt_number = 0 THEN {} ELSE IsRetryTags("attempt_to_fix")

(* The RetryHandler interface: a call on a handler object runs the method of
   the handler's class. *)
should_apply(h, t) ==
    CASE h = ATF -> AttemptToFixHandler_should_apply(t)
      [] h = EFD -> EarlyFlakeDetectionHandler_should_apply(t)
      [] h = ATR -> AutoTestRetriesHandler_should_apply(t)

should_retry(h, t) ==
    CASE h = ATF -> AttemptToFixHandler_should_retry(t)
      [] h = EFD -> EarlyFlakeDetectionHandler_should_retry(t)
      [] h = ATR -> AutoTestRetriesHandler_should_retry(t)

get_final_status(h, t) ==
    CASE h = ATF -> AttemptToFixHandler_get_final_status(t)
      [] h = EFD -> EarlyFlakeDetectionHandler_get_final_status(t)
      [] h = ATR -> AutoTestRetriesHandler_get_final_status(t)

get_tags_for_test_run(h, run) ==
    CASE h = ATF -> AttemptToFixHandler_get_tags_for_test_run(run)
      [] h = EFD -> EarlyFlakeDetectionHandler_get_tags_for_test_run(run)
      [] h = ATR -> AutoTestRetriesHandler_get_tags_for_test_run(run)

----------------------------------------------------------------------------
(* SessionManager (session_manager.py) *)

TestRefs == {"t1", "t2"}
ItemRef == "t1"

FaultySessionThreshold == 30

TestPropertiesDefault ==
    [quarantined |-> FALSE, disabled |-> FALSE, attempt_to_fix |-> FALSE]

NoTest ==
    [exists |-> FALSE, is_new |-> FALSE, is_quarantined |-> FALSE, is_disabled |-> FALSE,
     is_attempt_to_fix |-> FALSE, status |-> None, finished |-> FALSE, test_runs |-> <<>>]

(* Python floats (IEEE 754 doubles), for len(new_tests) / total_tests * 100: a
   positive double is [m, e], m its 53-bit significand with the least significant
   bit first and the top bit 1, e the exponent of m[1]; NoBits is 0.0 *)
SignificandBits == 53
NoBits == [m |-> <<>>, e |-> 0]

Zeros(k) == [i \in 1..k |-> 0]

Reverse(seq) == [i \in 1..Len(seq) |-> seq[Len(seq) + 1 - i]]

RECURSIVE bits_of(_)
bits_of(k) == IF k = 0 THEN <<>> ELSE <<k % 2>> \o bits_of(k \div 2)

(* the bits, lowest first, of a + b + carry: the carry into a position is 1 when a
   lower position generates one and every position between propagates it *)
bits_add(a, b, carry) ==
    LET n == IF Len(a) > Len(b) THEN Len(a) ELSE Len(b)
        bit(s, i) == IF i \in DOMAIN s THEN s[i] ELSE 0
        propagates(lo, hi) == \A k \in lo..hi : bit(a, k) + bit(b, k) >= 1
        carry_into(i) ==
            IF \/ carry = 1 /\ propagates(1, i - 1)
               \/ \E j \in 1..(i - 1) :
                      /\ bit(a, j) = 1
                      /\ bit(b, j) = 1
                      /\ propagates(j + 1, i - 1)
            THEN 1 ELSE 0
        low == [i \in 1..n |-> (bit(a, i) + bit(b, i) + carry_into(i)) % 2]
    IN  low \o (IF carry_into(n + 1) = 1 THEN <<1>> ELSE <<>>)

(* a > b for two bit strings without leading zeros *)
bits_gt(a, b) ==
    IF Len(a) # Len(b) THEN Len(a) > Len(b)
    ELSE \E i \in DOMAIN a :
             /\ a[i] > b[i]
             /\ \A j \in (i + 1)..Len(a) : a[j] = b[j]

(* round to nearest, ties to even, of the bits a (top bit 1) whose lowest bit has
   exponent e *)
float_round(a, e) ==
    LET drop == Len(a) - SignificandBits
        kept == SubSeq(a, drop + 1, Len(a))
        guard == a[drop]
        sticky == \E i \in 1..(drop - 1) : a[i] = 1
        up == bits_add(kept, <<1>>, 0)
    IN  IF drop <= 0 THEN [m |-> a, e |-> e]
        ELSE IF guard = 1 /\ (sticky \/ kept[1] = 1)
        THEN IF Len(up) > SignificandBits
             THEN [m |-> Tail(up), e |-> e + drop + 1]
             ELSE [m |-> up, e |-> e + drop]
        ELSE [m |-> kept, e |-> e + drop]

(* 2^i modulo d *)
RECURSIVE pow2_mod(_, _)
pow2_mod(i, d) ==
    IF i = 0 THEN 1 % d
    ELSE LET h == pow2_mod(i \div 2, d)
         IN  (h * h * (IF i % 2 = 1 THEN 2 ELSE 1)) % d

(* what is left of r / d after the first k bits of its binary expansion *)
quotient_rest(r, d, k) == (r * pow2_mod(k, d)) % d

(* the first k bits of the binary expansion of r / d, for r < d *)
quotient_bits(r, d, k) == [i \in 1..k |-> (2 * quotient_rest(r, d, i - 1)) \div d]

RECURSIVE leading_zeros(_, _)
leading_zeros(r, d) == IF 2 * r >= d THEN 0 ELSE 1 + leading_zeros(2 * r, d)

(* n / d as a float, for 0 <= n < d *)
float_div(n, d) ==
    IF n = 0 THEN NoBits
    ELSE LET z == leading_zeros(n, d)
             bits == quotient_bits(n, d, z + SignificandBits + 1)
             sticky == IF quotient_rest(n, d, z + SignificandBits + 1) # 0 THEN 1 ELSE 0
         IN  float_round(<<sticky>> \o Reverse(SubSeq(bits, z + 1, Len(bits))),
                         0 - (z + SignificandBits + 2))

(* x * 100 as a float: 100 = 64 + 32 + 4 *)
float_mul_100(x) ==
    IF Len(x.m) = 0 THEN NoBits
    ELSE float_round(bits_add(bits_add(Zeros(6) \o x.m, Zeros(5) \o x.m, 0),
                              Zeros(2) \o x.m, 0),
                     x.e)

(* x > k for a float x and an integer k >= 0 *)
float_gt_int(x, k) ==
    IF Len(x.m) = 0 THEN FALSE
    ELSE IF k = 0 THEN TRUE
    ELSE IF x.e < 0 THEN bits_gt(x.m, Zeros(0 - x.e) \o bits_of(k))
    ELSE bits_gt(Zeros(x.e) \o x.m, bits_of(k))

(* is_faulty_session of setup_retry_handlers (known_tests is not empty) *)
is_faulty_session(known, collected, threshold) ==
    LET new_tests == collected \ known
        total_tests == Cardinality(new_tests) + Cardinality(known)
        new_tests_percentage ==
            float_mul_100(float_div(Cardinality(new_tests), total_tests))
    IN  /\ Cardinality(known) > threshold
        /\ float_gt_int(new_tests_percentage, threshold)

(* mutant: Auto Test Retries is appended first *)
Mutant_setup_retry_handlers_atr_first(s, known, collected) ==
    (IF s.auto_test_retries THEN <<ATR>> ELSE <<>>)
    \o (IF s.test_management THEN <<ATF>> ELSE <<>>)
    \o (IF s.early_flake_detection /\ known # {}
           /\ ~is_faulty_session(known, collected, s.faulty_session_threshold)
        THEN <<EFD>> ELSE <<>>)

setup_retry_handlers(s, known, collected) ==
    (IF s.test_management THEN <<ATF>> ELSE <<>>)
    \o (IF s.early_flake_detection /\ known # {}
           /\ ~is_faulty_session(known, collected, s.faulty_session_threshold)
        THEN <<EFD>> ELSE <<>>)
    \o (IF s.auto_test_retries THEN <<ATR>> ELSE <<>>)

(* mutant: a test is new whenever it is not in the catalog, empty or not *)
Mutant_discover_test_new_if_unknown(t, ref, known, props) ==
    IF t.exists THEN t
    ELSE [NoTest EXCEPT !.exists = TRUE,
                        !.is_new = (ref \notin known),
                        !.is_quarantined = props.quarantined,
                        !.is_disabled = props.disabled,
                        !.is_attempt_to_fix = props.attempt_to_fix]

(* discover_test for the Test level: create-if-absent, attributes set on creation *)
discover_test(t, ref, known, props) ==
    IF t.exists THEN t
    ELSE [NoTest EXCEPT !.exists = TRUE,
                        !.is_new = (Cardinality(known) > 0 /\ ref \notin known),
                        !.is_quarantined = props.quarantined,
                        !.is_disabled = props.disabled,
                        !.is_attempt_to_fix = props.attempt_to_fix]

----------------------------------------------------------------------------
(* TestOptPlugin (internal/pytest/plugin.py) *)

DISABLED_BY_TEST_MANAGEMENT_REASON == "Flaky test is disabled by Datadog"

NoItem == [skip_marker |-> "", dd_quarantined |-> FALSE]

(* mutant: the scan does not stop at the first applicable handler *)
RECURSIVE Mutant_check_last_applicable(_, _)
Mutant_check_last_applicable(hs, t) ==
    IF hs = <<>> THEN None
    ELSE IF should_apply(hs[Len(hs)], t) THEN hs[Len(hs)]
    ELSE Mutant_check_last_applicable(SubSeq(hs, 1, Len(hs) - 1), t)

(* mutant: the scan starts at the second handler *)
RECURSIVE Mutant_check_skips_first(_, _)
Mutant_check_skips_first(hs, t) ==
    IF hs = <<>> THEN None
    ELSE IF Len(hs) > 1 /\ should_apply(hs[2], t) THEN hs[2]
    ELSE Mutant_check_skips_first(Tail(hs), t)

RECURSIVE check_applicable_retry_handlers(_, _)
check_applicable_retry_handlers(hs, t) ==
    IF hs = <<>> THEN None
    ELSE IF should_apply(Head(hs), t) THEN Head(hs)
    ELSE check_applicable_retry_handlers(Tail(hs), t)

(* the handlers whose should_apply the scan of _check_applicable_retry_handlers calls *)
RECURSIVE consulted(_, _)
consulted(hs, t) ==
    IF hs = <<>> THEN {}
    ELSE IF should_apply(Head(hs), t) THEN {Head(hs)}
    ELSE {Head(hs)} \cup consulted(Tail(hs), t)

(* mutant: attempt numbers start at 1 *)
Mutant_make_test_run_one_based(t) ==
    [t EXCEPT !.test_runs = Append(@, [attempt_number |-> Len(t.test_runs) + 1,
                                        status |-> None, tags |-> {},
                                        finished |-> FALSE])]

(* Test.make_test_run *)
make_test_run(t) ==
    [t EXCEPT !.test_runs = Append(@, [attempt_number |-> Len(t.test_runs),
                                        status |-> None, tags |-> {},
                                        finished |-> FALSE])]

(* pytest.TestReport: outcome, longrepr and the user properties the plugin adds;
   a report group maps every phase to its report *)
PASSED == "passed"
FAILED == "failed"
SKIPPED == "skipped"
DD_RETRY == "dd_retry"
QUARANTINED_LONGREPR == "Quarantined"

TestPhase == <<"setup", "call", "teardown">>

TestReport(outcome, longrepr) ==
    [outcome |-> outcome, longrepr |-> longrepr,
     dd_retry_outcome |-> None, dd_retry_reason |-> None]

(* reports.get(when) of a phase that has no report *)
NoReport == TestReport(None, "")

ReportOf(outcome, skip_reason) ==
    CASE outcome = PASSED -> TestReport(PASSED, "")
      [] outcome = FAILED -> TestReport(FAILED, "exc")
      [] outcome = SKIPPED -> TestReport(SKIPPED, skip_reason)

(* the report groups one execution of an item can produce: call is run only when
   setup passed, teardown always *)
ReportGroups ==
    {[setup |-> ReportOf(PASSED, ""), call |-> ReportOf(c, "skip"),
      teardown |-> ReportOf(t, "skip")] : c \in {PASSED, FAILED, SKIPPED},
                                          t \in {PASSED, FAILED, SKIPPED}}
    \cup
    {[setup |-> ReportOf(s, "skip"), call |-> NoReport,
      teardown |-> ReportOf(t, "skip")] :
        s \in {FAILED, SKIPPED}, t \in {PASSED, FAILED, SKIPPED}}

(* the executions the item of the retry protocol can have, one per status: all
   phases pass, the call phase fails, setup is skipped (no call report) *)
ItemReportGroups ==
    {g \in ReportGroups :
        /\ g.teardown.outcome = PASSED
        /\ \/ g.call # NoReport /\ g.call.outcome \in {PASSED, FAILED}
           \/ g.call = NoReport /\ g.setup.outcome = SKIPPED}

(* runtestprotocol(item, log=False) with pytest_runtest_makereport saving the
   reports: an item carrying a skip marker is skipped in setup with the marker's
   reason *)
runtestprotocol(it) ==
    IF it.skip_marker # ""
    THEN {[setup |-> ReportOf(SKIPPED, it.skip_marker), call |-> NoReport,
           teardown |-> ReportOf(PASSED, "")]}
    ELSE ItemReportGroups

(* pytest.ExceptionInfo: call.excinfo of a phase that raised; NoExcinfo is the
   None of a phase that raised nothing *)
ExceptionInfo(type, value) == [type |-> type, value |-> value]
NoExcinfo == ExceptionInfo(None, None)

(* pytest_runtest_makereport: excinfo_by_report[report] = call.excinfo, which
   pytest sets exactly for a phase that failed or was skipped; the value of a
   skip exception is the reason the skipped report shows *)
excinfo_of(report) ==
    IF report.outcome \in {FAILED, SKIPPED} THEN ExceptionInfo("exc", report.longrepr)
    ELSE NoExcinfo

(* _get_exception_tags(excinfo) *)
exception_tags(excinfo) ==
    {<<"error.stack", excinfo.value>>, <<"error.type", excinfo.type>>,
     <<"error.message", excinfo.value>>}

(* _get_test_outcome on the popped report group, excinfo giving the saved
   exception info of every phase: the first phase, in the order setup, call,
   teardown, whose report failed or was skipped decides the status and the tags;
   popped are the phases whose exception info was removed from
   excinfo_by_report; excinfo.type and excinfo.value of None raise AttributeError *)
RECURSIVE get_test_outcome_from(_, _, _)
get_test_outcome_from(reports_dict, excinfo, i) ==
    IF i > Len(TestPhase)
    THEN [status |-> PASS, tags |-> {}, raised |-> None, popped |-> {}]
    ELSE LET when == TestPhase[i]
             report == reports_dict[when]
             rest == get_test_outcome_from(reports_dict, excinfo, i + 1)
         IN  IF report = NoReport THEN rest
             ELSE IF report.outcome \in {FAILED, SKIPPED} /\ excinfo[when] = NoExcinfo
             THEN [status |-> None, tags |-> {}, raised |-> "AttributeError",
                   popped |-> {when}]
             ELSE IF report.outcome = FAILED
             THEN [status |-> FAIL, tags |-> exception_tags(excinfo[when]),
                   raised |-> None, popped |-> {when}]
             ELSE IF report.outcome = SKIPPED
             THEN [status |-> SKIP, tags |-> {<<"test.skip_reason", excinfo[when].value>>},
                   raised |-> None, popped |-> {when}]
             ELSE [rest EXCEPT !.popped = @ \cup {when}]

(* the exception info pytest_runtest_makereport saved for the reports of one
   execution *)
saved_excinfo(reports_dict) ==
    [when \in {"setup", "call", "teardown"} |-> excinfo_of(reports_dict[when])]

(* _get_test_outcome for the reports of an execution of the item: (status, tags) *)
get_test_outcome(reports_dict) ==
    LET outcome == get_test_outcome_from(reports_dict, saved_excinfo(reports_dict), 1)
    IN  <<outcome.status, outcome.tags>>

(* pytest_runtest_makereport during the n-th execution of the test at node:
   excinfo_by_report[report] = call.excinfo for the report of every phase *)
save_excinfo(excinfos, node, n, reports_dict) ==
    LET saved == {<<node, n, when>> : when \in {w \in {"setup", "call", "teardown"} :
                                          reports_dict[w] # NoReport}}
    IN  [k \in DOMAIN excinfos \cup saved |->
            IF k \in saved THEN excinfo_of(reports_dict[k[3]]) ELSE excinfos[k]]

(* _get_test_outcome: self.excinfo_by_report.pop(report, None) for the report of
   every phase it reads, and of no other *)
pop_excinfo(excinfos, node, n, reports_dict) ==
    LET popped == get_test_outcome_from(reports_dict, saved_excinfo(reports_dict),
                                        1).popped
    IN  [k \in DOMAIN excinfos \ {<<node, n, when>> : when \in popped} |-> excinfos[k]]

(* mutant: the report keeps its outcome *)
Mutant_mark_report_keeps_outcome(when, report) ==
    IF when = "teardown" THEN report
    ELSE [report EXCEPT !.longrepr = QUARANTINED_LONGREPR]

(* _mark_test_report_as_quarantined *)
mark_test_report_as_quarantined(when, report) ==
    IF when = "teardown" THEN [report EXCEPT !.outcome = PASSED]
    ELSE [report EXCEPT !.longrepr = QUARANTINED_LONGREPR, !.outcome = SKIPPED]

(* mutant: the phases other than the marked one keep their outcomes *)
Mutant_mark_reports_only_marked_phase(reports) ==
    IF reports.call # NoReport
    THEN [reports EXCEPT !.call = mark_test_report_as_quarantined("call", @)]
    ELSE [reports EXCEPT !.setup = mark_test_report_as_quarantined("setup", @)]

(* _mark_test_reports_as_quarantined *)
mark_test_reports_as_quarantined(reports) ==
    IF reports.call # NoReport
    THEN [reports EXCEPT !.call = mark_test_report_as_quarantined("call", @),
                         !.setup.outcome = PASSED,
                         !.teardown.outcome = PASSED]
    ELSE [reports EXCEPT !.setup = mark_test_report_as_quarantined("setup", @),
                         !.teardown.outcome = PASSED]

(* _mark_test_report_as_retry on the report of phase when, if there is one *)
mark_test_report_as_retry(reports, handler, when) ==
    IF reports[when] # NoReport
    THEN [reports EXCEPT ![when] = [reports[when] EXCEPT
                                        !.dd_retry_outcome = reports[when].outcome,
                                        !.dd_retry_reason = handler,
                                        !.outcome = DD_RETRY]]
    ELSE reports

(* mutant: only a call report is ever marked *)
Mutant_mark_reports_as_retry_call_only(reports, handler) ==
    mark_test_report_as_retry(reports, handler, "call")

(* _mark_test_reports_as_retry: the call report, else the setup report *)
mark_test_reports_as_retry(reports, handler) ==
    IF reports.call # NoReport THEN mark_test_report_as_retry(reports, handler, "call")
    ELSE mark_test_report_as_retry(reports, handler, "setup")

(* what item.ihook.pytest_runtest_logreport is given *)
Logged(when, report) == [when |-> when] @@ report

(* _log_test_report: the report of phase when goes to the host, if there is one *)
log_test_report(reports, when) ==
    IF reports[when] # NoReport THEN <<Logged(when, reports[when])>> ELSE <<>>

(* mutant: the call report is logged before the setup report *)
Mutant_log_test_reports_call_first(reports) ==
    log_test_report(reports, "call") \o log_test_report(reports, "setup")
    \o log_test_report(reports, "teardown")

(* _log_test_reports: setup, call, teardown in that order *)
log_test_reports(reports) ==
    log_test_report(reports, "setup") \o log_test_report(reports, "call")
    \o log_test_report(reports, "teardown")

(* _extract_longrepr: the call longrepr first, then setup, then teardown *)
extract_longrepr(reports) ==
    IF reports.call # NoReport /\ reports.call.longrepr # "" THEN reports.call.longrepr
    ELSE IF reports.setup # NoReport /\ reports.setup.longrepr # ""
    THEN reports.setup.longrepr
    ELSE IF reports.teardown # NoReport /\ reports.teardown.longrepr # ""
    THEN reports.teardown.longrepr
    ELSE None

(* mutant: the final report always has the outcome passed *)
Mutant_make_final_report_always_passed(final_status, longrepr) ==
    TestReport(PASSED, longrepr)

(* _make_final_report: a call report with the outcome the final status maps to *)
make_final_report(final_status, longrepr) ==
    TestReport(CASE final_status = PASS -> PASSED
                 [] final_status = FAIL -> FAILED
                 [] final_status = SKIP -> SKIPPED
                 [] OTHER -> final_status,
               longrepr)

set_last_run(t, f, v) ==
    [t EXCEPT !.test_runs[Len(t.test_runs)][f] = v]

add_tags_last_run(t, tags) ==
    [t EXCEPT !.test_runs[Len(t.test_runs)].tags = @ \cup tags]

(* _do_one_test_run: a fresh TestRun with the status and tags of the execution
   that left the reports rs *)
do_one_test_run(t, rs) ==
    add_tags_last_run(set_last_run(make_test_run(t), "status", get_test_outcome(rs)[1]),
                      get_test_outcome(rs)[2])

RunItem(n) == <<"TestRun", n>>

RECURSIVE all_run_items(_)
all_run_items(runs) ==
    IF runs = <<>> THEN <<>>
    ELSE <<RunItem(Head(runs).attempt_number)>> \o all_run_items(Tail(runs))

----------------------------------------------------------------------------
(* The retry protocol of one item: initial state and actions *)

Settings == [test_management : BOOLEAN, early_flake_detection : BOOLEAN,
             auto_test_retries : BOOLEAN,
             faulty_session_threshold : {FaultySessionThreshold}]

(* Settings() of api_client.py: every feature disabled *)
SettingsDefault ==
    [test_management |-> FALSE, early_flake_detection |-> FALSE,
     auto_test_retries |-> FALSE, faulty_session_threshold |-> FaultySessionThreshold]

TestProperties == [quarantined : BOOLEAN, disabled : BOOLEAN, attempt_to_fix : BOOLEAN]

(* no thread owns TestOptWriter.lock *)
Unlocked == -1

TreeIdle ==
    /\ nodes = {<<>>}
    /\ status = [n \in {<<>>} |-> None]
    /\ explicit = [n \in {<<>>} |-> None]
    /\ objects = [n \in {<<>>} |-> 1]
    /\ ret = [op |-> "init", node |-> <<>>, value |-> None]

(* the SessionManager was constructed with the tags of a git checkout *)
GitTags == {"repository_url", "sha", "branch", "commit_message"}

SessionIdle ==
    /\ session_items = <<>>
    /\ cursor = 0
    /\ tests = <<>>
    /\ finish_calls = <<>>
    /\ callbacks = <<>>
    /\ git_tags = GitTags
    /\ is_xdist_worker = FALSE
    /\ api_calls = <<>>
    /\ raised = None

WriterIdle ==
    /\ lock = Unlocked
    /\ lists = <<<<>>>>
    /\ self_events = 1
    /\ ppc = <<>>
    /\ pref = <<>>
    /\ pnext = <<>>
    /\ cpc = "idle"
    /\ cref = 0
    /\ sent = <<>>
    /\ nflush = 0
    /\ failed = {}
    /\ should_finish = FALSE
    /\ mpc = "idle"

(* SessionManager.__init__: settings, known tests and test-management properties
   are whatever the backend returned *)
Init ==
    /\ pc = "collection"
    /\ settings \in Settings
    /\ known_tests \in SUBSET TestRefs
    /\ test_properties \in (IF settings.test_management THEN TestProperties
                            ELSE {TestPropertiesDefault})
    /\ collected_tests = {}
    /\ retry_handlers = <<>>
    /\ test = NoTest
    /\ stored_reports = None
    /\ excinfo_by_report = <<>>
    /\ retry_reports = None
    /\ retry_longrepr = None
    /\ logged = <<>>
    /\ executed = <<>>
    /\ item = NoItem
    /\ retry_handler = None
    /\ calls = {}
    /\ selections = <<>>
    /\ put_items = <<>>
    /\ TreeIdle
    /\ SessionIdle
    /\ WriterIdle

(* end of collection: every collected item is discovered, then
   SessionManager.finish_collection installs the retry handlers *)
pytest_collection_finish ==
    /\ pc = "collection"
    /\ UNCHANGED executed
    /\ test' = discover_test(test, ItemRef, known_tests, test_properties)
    /\ collected_tests' = collected_tests \cup {ItemRef}
    /\ retry_handlers' = retry_handlers
                         \o setup_retry_handlers(settings, known_tests, collected_tests')
    /\ pc' = "wrapper"
    /\ UNCHANGED <<treeVars, writerVars, sessVars, settings, known_tests, test_properties,
                   stored_reports, excinfo_by_report, retry_reports, retry_longrepr, logged, item, retry_handler,
                   calls, selections, put_items>>

(* mutant: every disabled test gets the skip marker *)
Mutant_gate_skips_every_disabled(it, t) ==
    IF t.is_disabled
    THEN [it EXCEPT !.skip_marker = DISABLED_BY_TEST_MANAGEMENT_REASON]
    ELSE IF t.is_quarantined
    THEN [it EXCEPT !.dd_quarantined = TRUE]
    ELSE it

(* pytest_runtest_protocol_wrapper, lines 180-185: the skip marker of a disabled
   test, the dd_quarantined user property of a quarantined one *)
test_management_gate(it, t) ==
    IF t.is_disabled /\ ~t.is_attempt_to_fix
    THEN [it EXCEPT !.skip_marker = DISABLED_BY_TEST_MANAGEMENT_REASON]
    ELSE IF t.is_quarantined \/ (t.is_disabled /\ t.is_attempt_to_fix)
    THEN [it EXCEPT !.dd_quarantined = TRUE]
    ELSE it

(* pytest_runtest_protocol_wrapper up to its yield: discovery and the
   disabled / quarantined gate *)
pytest_runtest_protocol_wrapper_before ==
    /\ pc = "wrapper"
    /\ UNCHANGED executed
    /\ test' = discover_test(test, ItemRef, known_tests, test_properties)
    /\ collected_tests' = collected_tests \cup {ItemRef}
    /\ item' = test_management_gate(item, test')
    /\ pc' = "protocol"
    /\ UNCHANGED <<treeVars, writerVars, sessVars, settings, known_tests, retry_handlers, test_properties,
                   stored_reports, excinfo_by_report, retry_reports, retry_longrepr, logged, retry_handler, calls,
                   selections, put_items>>

(* pytest_runtest_protocol = _do_test_runs: policy selection, the first run, and
   either the single-run ending or the entry of _do_retries up to its loop *)
do_test_runs ==
    /\ pc = "protocol"
    /\ \E rs \in runtestprotocol(item) :
        LET handler == check_applicable_retry_handlers(retry_handlers, test)
            applied == {<<h, "should_apply">> : h \in consulted(retry_handlers, test)}
            t1 == do_one_test_run(test, rs)
            retry_rs == mark_test_reports_as_retry(rs, handler)
            final_rs == IF test.is_quarantined \/ test.is_disabled
                        THEN mark_test_reports_as_quarantined(rs) ELSE rs
        IN  /\ retry_handler' = handler
            /\ executed' = Append(executed, rs)
            /\ selections' = Append(selections,
                                    [n_runs |-> Len(test.test_runs), result |-> handler])
            /\ IF handler # None /\ should_retry(handler, t1)
               THEN \* _do_retries, lines 255-267
                    /\ test' = set_last_run(
                                   add_tags_last_run(t1,
                                       get_tags_for_test_run(handler, last_test_run(t1))),
                                   "finished", TRUE)
                    /\ calls' = calls \cup applied
                                \cup {<<handler, "should_retry">>,
                                      <<handler, "get_tags_for_test_run">>}
                    /\ put_items' = Append(put_items,
                                           RunItem(last_test_run(t1).attempt_number))
                    /\ retry_longrepr' = extract_longrepr(rs)
                    /\ retry_reports' = retry_rs
                    /\ logged' = logged \o log_test_report(retry_rs, "setup")
                                        \o log_test_report(retry_rs, "call")
                    /\ pc' = "retrying"
               ELSE /\ test' = set_last_run(t1, "finished", TRUE)
                    /\ calls' = calls \cup applied
                                \cup (IF handler # None
                                      THEN {<<handler, "should_retry">>} ELSE {})
                    /\ put_items' = Append(put_items,
                                           RunItem(last_test_run(t1).attempt_number))
                    /\ logged' = logged \o log_test_reports(final_rs)
                    /\ UNCHANGED <<retry_reports, retry_longrepr>>
                    /\ pc' = "after"
    /\ excinfo_by_report' = pop_excinfo(
                                save_excinfo(excinfo_by_report, ItemRef, Len(executed'),
                                             executed'[Len(executed')]),
                                ItemRef, Len(executed'), executed'[Len(executed')])
    /\ UNCHANGED <<treeVars, writerVars, sessVars, settings, known_tests, collected_tests, retry_handlers,
                   test_properties, stored_reports, item>>

(* one iteration of the while loop of _do_retries *)
do_retries_iteration ==
    /\ pc = "retrying"
    /\ \E rs \in runtestprotocol(item) :
        LET t1 == do_one_test_run(test, rs)
            again == should_retry(retry_handler, t1)
            retry_rs == mark_test_reports_as_retry(rs, retry_handler)
        IN  /\ retry_reports' = retry_rs
            /\ executed' = Append(executed, rs)
            /\ logged' = logged \o (IF log_test_report(retry_rs, "call") # <<>>
                                     THEN log_test_report(retry_rs, "call")
                                     ELSE log_test_report(retry_rs, "setup"))
            /\ test' = set_last_run(
                           add_tags_last_run(t1,
                               get_tags_for_test_run(retry_handler, last_test_run(t1))),
                           "finished", TRUE)
            /\ pc' = IF again THEN "retrying" ELSE "finalize"
    /\ calls' = calls \cup {<<retry_handler, "should_retry">>,
                            <<retry_handler, "get_tags_for_test_run">>}
    /\ excinfo_by_report' = pop_excinfo(
                                save_excinfo(excinfo_by_report, ItemRef, Len(executed'),
                                             executed'[Len(executed')]),
                                ItemRef, Len(executed'), executed'[Len(executed')])
    /\ UNCHANGED <<treeVars, writerVars, sessVars, settings, known_tests, collected_tests, retry_handlers,
                   test_properties, stored_reports, retry_longrepr, item, retry_handler,
                   selections, put_items>>

(* _do_retries after its loop: the final status, the run events, the final
   report and the one teardown report *)
do_retries_finish ==
    /\ pc = "finalize"
    /\ UNCHANGED executed
    /\ LET final_status == get_final_status(retry_handler, test)
           final_report == make_final_report(final_status, retry_longrepr)
           teardown_report == retry_reports.teardown
           masked == test.is_quarantined \/ test.is_disabled
       IN  /\ test' = [test EXCEPT !.status = final_status]
           /\ logged' = logged
                  \o <<Logged("call",
                               IF masked
                               THEN mark_test_report_as_quarantined("call", final_report)
                               ELSE final_report)>>
                  \o <<Logged("teardown",
                               IF masked
                               THEN mark_test_report_as_quarantined("teardown",
                                                                    teardown_report)
                               ELSE teardown_report)>>
    /\ calls' = calls \cup {<<retry_handler, "get_final_status">>}
    /\ put_items' = put_items \o all_run_items(test.test_runs)
    /\ retry_reports' = None
    /\ retry_longrepr' = None
    /\ pc' = "after"
    /\ UNCHANGED <<treeVars, writerVars, sessVars, settings, known_tests, collected_tests, retry_handlers,
                   test_properties, stored_reports, excinfo_by_report, item, retry_handler, selections>>

(* another plugin's pytest_runtest_protocol ran the item instead of ours: its
   reports were saved by pytest_runtest_makereport, no TestRun was made *)
other_runtest_protocol ==
    /\ pc = "protocol"
    /\ \E rs \in runtestprotocol(item) :
        /\ stored_reports' = rs
        /\ executed' = Append(executed, rs)
        /\ excinfo_by_report' = save_excinfo(excinfo_by_report, ItemRef,
                                             Len(executed) + 1, rs)
    /\ pc' = "after"
    /\ UNCHANGED <<treeVars, writerVars, sessVars, settings, known_tests, collected_tests, retry_handlers,
                   test_properties, test, retry_reports, retry_longrepr, logged, item,
                   retry_handler, calls, selections, put_items>>

(* mutant: the wrapper never makes the fallback run *)
Mutant_needs_fallback_run_never(t) == FALSE

(* `if not test.test_runs:` our pytest_runtest_protocol did not run *)
needs_fallback_run(t) == t.test_runs = <<>>

(* pytest_runtest_protocol_wrapper after its yield (the item is the last one of
   the session, so its suite and module end with it) *)
pytest_runtest_protocol_wrapper_after ==
    /\ pc = "after"
    /\ UNCHANGED executed
    /\ IF needs_fallback_run(test)
       THEN /\ test' = [set_last_run(do_one_test_run(test, stored_reports),
                                     "finished", TRUE)
                        EXCEPT !.finished = TRUE]
            /\ stored_reports' = None
            /\ excinfo_by_report' = pop_excinfo(excinfo_by_report, ItemRef, Len(executed),
                                                stored_reports)
            /\ put_items' = put_items \o <<RunItem(0), <<"TestSuite">>, <<"TestModule">>>>
       ELSE /\ test' = [test EXCEPT !.finished = TRUE]
            /\ put_items' = put_items \o <<<<"TestSuite">>, <<"TestModule">>>>
            /\ UNCHANGED <<stored_reports, excinfo_by_report>>
    /\ pc' = "done"
    /\ UNCHANGED <<treeVars, writerVars, sessVars, settings, known_tests, collected_tests, retry_handlers,
                   test_properties, retry_reports, retry_longrepr, logged, item, retry_handler,
                   calls, selections>>

(* pytest_sessionfinish *)
pytest_sessionfinish ==
    /\ pc = "done"
    /\ UNCHANGED executed
    /\ put_items' = Append(put_items, <<"TestSession">>)
    /\ pc' = "finished"
    /\ UNCHANGED <<treeVars, writerVars, sessVars, settings, known_tests, collected_tests, retry_handlers,
                   test_properties, test, stored_reports, excinfo_by_report, retry_reports, retry_longrepr, logged,
                   item, retry_handler, calls, selections>>

Next ==
    \/ pytest_collection_finish
    \/ pytest_runtest_protocol_wrapper_before
    \/ do_test_runs
    \/ do_retries_iteration
    \/ do_retries_finish
    \/ other_runtest_protocol
    \/ pytest_runtest_protocol_wrapper_after
    \/ pytest_sessionfinish

Spec == Init /\ [][Next]_vars

----------------------------------------------------------------------------
(* Properties of the retry protocol (specification Spec) *)

Range(f) == {f[i] : i \in DOMAIN f}
Statuses(t) == {t.test_runs[i].status : i \in DOMAIN t.test_runs}
ProtocolOver == pc \in {"after", "done", "finished"}

(* the first handler of the list that applies, or None *)
FirstApplicable(hs, t) ==
    IF \E i \in DOMAIN hs : should_apply(hs[i], t)
    THEN hs[CHOOSE i \in DOMAIN hs :
                /\ should_apply(hs[i], t)
                /\ \A j \in 1..(i - 1) : ~should_apply(hs[j], t)]
    ELSE None

(* C1: a test owned by Auto Test Retries or Early Flake Detection never has more
   than 6 TestRuns, whatever the outcomes of its runs; should_retry of both
   policies is false on every test with 6 or more runs, and the retry loop is
   only ever waiting for another run while the test has fewer than 6 runs. *)
C1_RetryTermination ==
    /\ retry_handler \in {ATR, EFD} => Len(test.test_runs) <= 6
    /\ Len(test.test_runs) >= 6 =>
           /\ ~AutoTestRetriesHandler_should_retry(test)
           /\ ~EarlyFlakeDetectionHandler_should_retry(test)
    /\ (pc = "retrying" /\ retry_handler \in {ATR, EFD}) => Len(test.test_runs) < 6

C1_Witness ==
    /\ pc = "finalize"
    /\ retry_handler = EFD
    /\ Len(test.test_runs) = 6
    /\ last_test_run(test).status = FAIL

(* C2: in a session whose only installed policy is Auto Test Retries, a test all
   of whose executions fail ends with exactly 6 TestRuns and final status FAIL. *)
C2_AtrAlwaysFailingRunsSixTimes ==
    (/\ pc = "finished"
     /\ retry_handlers = <<ATR>>
     /\ selections # <<>>
     /\ Statuses(test) = {FAIL})
    => (Len(test.test_runs) = 6 /\ test.status = FAIL)

(* C3: the policy of a test is selected at most once, while the test has no
   TestRun, and it is the first handler of the session's list whose should_apply
   is true, or None when there is none; the retry loop runs under that handler. *)
C3_PolicySelection ==
    /\ Len(selections) <= 1
    /\ \A k \in DOMAIN selections :
           /\ selections[k].n_runs = 0
           /\ selections[k].result = FirstApplicable(retry_handlers, test)
           /\ retry_handler = selections[k].result
    /\ selections = <<>> => retry_handler = None
    /\ pc \in {"retrying", "finalize"} => (selections # <<>> /\ retry_handler # None)

C3_Witness ==
    /\ Len(retry_handlers) = 3
    /\ selections # <<>>
    /\ ~should_apply(retry_handlers[1], test)
    /\ selections[1].result = retry_handlers[2]
    /\ Len(test.test_runs) > 1

(* C4: every should_retry, get_tags_for_test_run and get_final_status call made
   for a test goes to the first handler of the list whose should_apply is true;
   of any other handler only should_apply is ever called. *)
C4_SinglePolicyOwnership ==
    \A c \in calls :
        c[2] # "should_apply" => c[1] = FirstApplicable(retry_handlers, test)

C4_Witness ==
    /\ pc = "finished"
    /\ Cardinality({h \in Range(retry_handlers) : should_apply(h, test)}) >= 2
    /\ {<<retry_handlers[1], m>> :
            m \in {"should_retry", "get_tags_for_test_run", "get_final_status"}}
       \subseteq calls

(* C5: Early Flake Detection's final status of a test with at least one run is
   PASS if some run passed, else FAIL if some run failed, else SKIP, whatever
   the order of the runs; it is the status an EFD-owned test ends with. *)
C5_EfdRedemption ==
    /\ test.test_runs # <<>> =>
           EarlyFlakeDetectionHandler_get_final_status(test) =
               (IF PASS \in Statuses(test) THEN PASS
                ELSE IF FAIL \in Statuses(test) THEN FAIL
                ELSE SKIP)
    /\ (ProtocolOver /\ retry_handler = EFD) =>
           test.status = (IF PASS \in Statuses(test) THEN PASS
                          ELSE IF FAIL \in Statuses(test) THEN FAIL
                          ELSE SKIP)

C5_Witness ==
    /\ pc = "finished"
    /\ retry_handler = EFD
    /\ Len(test.test_runs) = 6
    /\ test.test_runs[1].status = FAIL
    /\ test.test_runs[2].status = FAIL
    /\ test.test_runs[3].status = PASS
    /\ test.test_runs[6].status = FAIL
    /\ test.status = PASS

RetryReason(h) ==
    CASE h = ATR -> "auto_test_retry"
      [] h = EFD -> "early_flake_detection"
      [] h = ATF -> "attempt_to_fix"

TagKeys(tags) == {tg[1] : tg \in tags}

(* C6: get_tags_for_test_run of every policy returns the empty map for the run
   with attempt_number 0 and test.is_retry = "true" with the policy's retry
   reason for every later run; the first TestRun of a test never carries retry
   tags, and every later run carries those of the policy that owns the test. *)
C6_FirstAttemptTags ==
    \A i \in DOMAIN test.test_runs :
        LET run == test.test_runs[i]
        IN  /\ \A h \in Handlers :
                   get_tags_for_test_run(h, run) =
                       (IF run.attempt_number = 0 THEN {}
                        ELSE {<<"test.is_retry", "true">>,
                              <<"test.retry_reason", RetryReason(h)>>})
            /\ run.attempt_number = 0 =>
                   TagKeys(run.tags) \cap {"test.is_retry", "test.retry_reason"} = {}
            /\ run.attempt_number > 0 =>
                   /\ <<"test.is_retry", "true">> \in run.tags
                   /\ <<"test.retry_reason", RetryReason(retry_handler)>> \in run.tags

C6_Witness ==
    /\ pc = "finished"
    /\ retry_handler = EFD
    /\ Len(test.test_runs) = 6
    /\ test.test_runs[1].attempt_number = 0
    /\ test.test_runs[1].status = FAIL
    /\ test.test_runs[1].finished

(* some phase of the execution failed *)
ExecutionFailed(g) ==
    \E i \in DOMAIN TestPhase :
        g[TestPhase[i]] # NoReport /\ g[TestPhase[i]].outcome = FAILED

(* C14: for a quarantined test, every TestRun made from an execution with a
   failed phase has status FAIL and keeps it; when all executions fail, the status
   the owning policy computes for the test is FAIL; and no report the plugin gives
   to pytest_runtest_logreport has outcome "failed". *)
C14_QuarantineDualBookkeeping ==
    test.is_quarantined =>
        /\ \A i \in DOMAIN logged : logged[i].outcome # FAILED
        /\ \A i \in DOMAIN test.test_runs :
               ExecutionFailed(executed[i]) => test.test_runs[i].status = FAIL
        /\ (/\ ProtocolOver
            /\ retry_handler # None
            /\ Len(test.test_runs) > 1
            /\ \A i \in DOMAIN executed : ExecutionFailed(executed[i]))
           => test.status = FAIL

C14_Witness ==
    /\ pc = "finished"
    /\ test.is_quarantined
    /\ retry_handler = EFD
    /\ Len(executed) = 6
    /\ \A i \in DOMAIN executed : ExecutionFailed(executed[i])
    /\ test.status = FAIL
    /\ logged[Len(logged) - 1].when = "call"
    /\ logged[Len(logged) - 1].outcome = SKIPPED
    /\ logged[Len(logged) - 1].longrepr = QUARANTINED_LONGREPR

GatePassed == pc \notin {"collection", "wrapper"}

SkippedInSetup(g, reason) ==
    /\ g.call = NoReport
    /\ g.setup.outcome = SKIPPED
    /\ g.setup.longrepr = reason

(* C16: once the wrapper has reached its yield, a test that is disabled and not
   attempt_to_fix carries the skip marker with the reason "Flaky test is disabled
   by Datadog" and is not flagged; each of its executions is skipped in setup with
   that reason, without a call phase, and each of its TestRuns has status SKIP and
   that reason as its skip reason tag; a test that is quarantined, or disabled and
   attempt_to_fix, carries no skip marker and is flagged dd_quarantined; any other
   test carries neither; and no should_apply is called before the gate. *)
C16_PreExecutionGate ==
    /\ GatePassed =>
           IF test.is_disabled /\ ~test.is_attempt_to_fix
           THEN /\ item.skip_marker = DISABLED_BY_TEST_MANAGEMENT_REASON
                /\ ~item.dd_quarantined
                /\ \A i \in DOMAIN executed :
                       SkippedInSetup(executed[i], DISABLED_BY_TEST_MANAGEMENT_REASON)
                /\ \A i \in DOMAIN test.test_runs :
                       /\ test.test_runs[i].status = SKIP
                       /\ <<"test.skip_reason", DISABLED_BY_TEST_MANAGEMENT_REASON>>
                              \in test.test_runs[i].tags
           ELSE /\ item.skip_marker = ""
                /\ item.dd_quarantined
                       = (test.is_quarantined
                          \/ (test.is_disabled /\ test.is_attempt_to_fix))
    /\ ~GatePassed =>
           (calls = {} /\ selections = <<>> /\ executed = <<>> /\ item = NoItem)

C16_Witness ==
    /\ pc = "finished"
    /\ test.is_disabled
    /\ ~test.is_attempt_to_fix
    /\ retry_handler = None
    /\ Len(test.test_runs) = 1
    /\ Len(logged) = 2

(* C16 as stated: the reason of the skip marker is the reason of every skipped
   report the host is given for a disabled test *)
C16_DisabledReasonReported ==
    (test.is_disabled /\ ~test.is_attempt_to_fix) =>
        \A i \in DOMAIN logged :
            logged[i].outcome = SKIPPED =>
                logged[i].longrepr = DISABLED_BY_TEST_MANAGEMENT_REASON

(* position of a handler kind in the order Attempt-to-Fix, EFD, ATR *)
HandlerRank(h) == IF h = ATF THEN 1 ELSE IF h = EFD THEN 2 ELSE 3

(* C18: the list of retry handlers is decided once, when collection ends and
   every test of the session is in collected_tests, before any should_apply and
   before any test runs; afterwards it never changes; it holds at most one
   handler of each kind, in the order Attempt-to-Fix, EFD, ATR. *)
C18_PolicyListDecidedOnce ==
    /\ [](pc = "collection" =>
            /\ retry_handlers = <<>>
            /\ calls = {}
            /\ executed = <<>>
            /\ test.test_runs = <<>>)
    /\ [](pc # "collection" =>
            /\ ItemRef \in collected_tests
            /\ \A i, j \in DOMAIN retry_handlers :
                   i < j => HandlerRank(retry_handlers[i]) < HandlerRank(retry_handlers[j]))
    /\ [][pc # "collection" => retry_handlers' = retry_handlers]_vars
    /\ [][pc' = "collection" => pc = "collection"]_vars

C18_Witness ==
    /\ pc = "finished"
    /\ retry_handlers = <<ATF, EFD, ATR>>
    /\ \E c \in calls : c[2] = "should_apply"
    /\ Len(test.test_runs) > 1

(* the runs of t that carry the retry tags of Early Flake Detection *)
EfdRetries(t) ==
    {i \in DOMAIN t.test_runs :
        <<"test.retry_reason", "early_flake_detection">> \in t.test_runs[i].tags}

(* C19: a test of the known-tests catalog is never owned by Early Flake
   Detection and gets no EFD-labelled retry; a test absent from a non-empty
   catalog is retried by EFD when EFD is installed and is the first handler that
   applies. *)
C19_EfdOnlyNewTests ==
    /\ (test.exists /\ ~test.is_new) =>
           (retry_handler # EFD /\ EfdRetries(test) = {})
    /\ (/\ ProtocolOver
        /\ selections # <<>>
        /\ test.is_new
        /\ FirstApplicable(retry_handlers, test) = EFD) =>
           (retry_handler = EFD /\ EfdRetries(test) # {})

(* some policy's get_final_status has been called *)
FinalStatusComputed == \E h \in Handlers : <<h, "get_final_status">> \in calls

(* the reports given to the host that are neither retry reports nor setup or
   teardown reports *)
FinalReports(log) ==
    {i \in DOMAIN log : log[i].when = "call" /\ log[i].outcome # DD_RETRY}

ReportOutcome(st) ==
    CASE st = PASS -> PASSED
      [] st = FAIL -> FAILED
      [] st = SKIP -> SKIPPED
      [] OTHER -> st

(* C20: get_final_status of the owning policy is computed once, when the retry
   loop has stopped; its result becomes the explicit status of the Test and is
   never changed afterwards; exactly one final report is given to the host, and
   its outcome is that status, or skipped when the test is quarantined or
   disabled. *)
C20_FinalStatusOnce ==
    /\ [](~FinalStatusComputed => test.status = None)
    /\ [](pc \in {"retrying", "finalize"} => FinalReports(logged) = {})
    /\ [](FinalStatusComputed =>
            /\ test.status \in TestStatus
            /\ Cardinality(FinalReports(logged)) = 1
            /\ \A i \in FinalReports(logged) :
                   logged[i].outcome =
                       (IF test.is_quarantined \/ test.is_disabled THEN SKIPPED
                        ELSE ReportOutcome(test.status)))
    /\ [][(pc = "finalize" /\ pc' # pc) =>
             /\ ~FinalStatusComputed
             /\ FinalStatusComputed'
             /\ test'.status = get_final_status(retry_handler, test)]_vars
    /\ [][(~FinalStatusComputed /\ FinalStatusComputed') => pc = "finalize"]_vars
    /\ [][FinalStatusComputed =>
             /\ pc' # "finalize"
             /\ calls' = calls
             /\ test'.status = test.status
             /\ logged' = logged]_vars

C20_Witness ==
    /\ pc = "finished"
    /\ FinalStatusComputed
    /\ test.is_quarantined
    /\ test.status = PASS
    /\ last_test_run(test).status = FAIL

(* C20 as stated: the outcome of the final report is the final status *)
C20_FinalReportCarriesStatus ==
    FinalStatusComputed =>
        \A i \in FinalReports(logged) : logged[i].outcome = ReportOutcome(test.status)

(* the item's protocol ended without _do_retries *)
SingleRunPath == ProtocolOver /\ selections # <<>> /\ ~FinalStatusComputed

(* C21: a test with no applicable policy, or whose policy declines a retry after
   the first run, ends with exactly one finished run, and the explicit status
   of its Test node is the status of that run (tests masked by the quarantine
   gate set aside). *)
C21_SingleRunStatus ==
    (SingleRunPath /\ ~test.is_quarantined /\ ~test.is_disabled) =>
        /\ Len(test.test_runs) = 1
        /\ last_test_run(test).finished
        /\ test.status = last_test_run(test).status

(* the part of C21 about the number of runs *)
SingleRunOnce ==
    SingleRunPath => (Len(test.test_runs) = 1 /\ last_test_run(test).finished)

(* C25: the attempt_number of the run at (zero-based) index i of test_runs is i;
   the list only grows, by one run appended at a time, and an assigned
   attempt_number never changes; last_test_run is the newest run. *)
C25_AttemptNumbering ==
    /\ [](\A i \in DOMAIN test.test_runs : test.test_runs[i].attempt_number = i - 1)
    /\ [](test.test_runs # <<>> =>
            last_test_run(test).attempt_number = Len(test.test_runs) - 1)
    /\ [][/\ Len(test'.test_runs) \in {Len(test.test_runs), Len(test.test_runs) + 1}
          /\ \A i \in DOMAIN test.test_runs :
                 test'.test_runs[i].attempt_number = test.test_runs[i].attempt_number]_vars

C25_Witness ==
    /\ pc = "finished"
    /\ Len(test.test_runs) = RetryCap
    /\ \A i \in DOMAIN test.test_runs : test.test_runs[i].attempt_number = i - 1

RetryReports(log) == {i \in DOMAIN log : log[i].outcome = DD_RETRY}
TeardownReports(log) == {i \in DOMAIN log : log[i].when = "teardown"}

(* the k-th index of a set of indices *)
NthIndex(S, k) == CHOOSE i \in S : Cardinality({j \in S : j < i}) = k - 1

(* the phase whose report stands for an execution: call, else setup *)
ReportedPhase(g) == IF g.call # NoReport THEN "call" ELSE "setup"

(* one dd_retry report per execution so far, in order, each with the outcome of
   that execution and the owning policy *)
RetryReportsLogged ==
    /\ Len(executed) = Len(test.test_runs)
    /\ Cardinality(RetryReports(logged)) = Len(executed)
    /\ \A k \in DOMAIN executed :
           LET r == logged[NthIndex(RetryReports(logged), k)]
               g == executed[k]
           IN  /\ r.when = ReportedPhase(g)
               /\ r.dd_retry_outcome = g[ReportedPhase(g)].outcome
               /\ r.dd_retry_reason = retry_handler

(* after the dd_retry reports, one final report and then one teardown report *)
RetrySequenceLogged ==
    /\ RetryReportsLogged
    /\ Cardinality(FinalReports(logged)) = 1
    /\ FinalReports(logged) = {Len(logged) - 1}
    /\ \A i \in RetryReports(logged) : i < Len(logged) - 1
    /\ TeardownReports(logged) = {Len(logged)}

(* C30: a policy-owned test executed N times gets N reports labelled dd_retry,
   one per execution, each with the original outcome and the owning policy,
   then one final report, then one teardown report; the outcome of the final
   report is the mapped final status, or skipped when the test is quarantined
   or disabled. *)
C30_RetryReporting ==
    /\ pc \in {"retrying", "finalize"} => RetryReportsLogged
    /\ FinalStatusComputed =>
           /\ RetrySequenceLogged
           /\ logged[Len(logged) - 1].outcome =
                  (IF test.is_quarantined \/ test.is_disabled THEN SKIPPED
                   ELSE ReportOutcome(test.status))

C30_Witness ==
    /\ pc = "finished"
    /\ FinalStatusComputed
    /\ Len(test.test_runs) = RetryCap
    /\ ~test.is_quarantined
    /\ ~test.is_disabled
    /\ test.status = FAIL
    /\ Cardinality(RetryReports(logged)) = RetryCap

(* C30 as stated: the final report of every policy-owned test has the mapped
   final status *)
C30_FinalReportMapped ==
    FinalStatusComputed =>
        /\ RetrySequenceLogged
        /\ logged[Len(logged) - 1].outcome = ReportOutcome(test.status)

(* DD_CIVISIBILITY_FLAKY_RETRY_COUNT as the session that checks the retry budget
   sets it *)
FlakyRetryCount == 2

(* C31: with Auto Test Retries the only installed policy and
   DD_CIVISIBILITY_FLAKY_RETRY_COUNT = N, should_apply is true for a test that has
   no run yet, should_retry is true after each of the first N consecutive failed
   runs and false after the (N+1)-th, and a test all of whose executions fail
   ends with exactly N+1 runs and final status FAIL. *)
C31_ConfigurableAtrBudget ==
    retry_handlers = <<ATR>> =>
        /\ (test.exists /\ test.test_runs = <<>>) =>
               AutoTestRetriesHandler_should_apply(test)
        /\ (test.test_runs # <<>> /\ Statuses(test) = {FAIL}) =>
               (AutoTestRetriesHandler_should_retry(test)
                    <=> Len(test.test_runs) <= FlakyRetryCount)
        /\ (pc = "finished" /\ selections # <<>> /\ Statuses(test) = {FAIL}) =>
               (Len(test.test_runs) = FlakyRetryCount + 1 /\ test.status = FAIL)

(* how many times the TestRun with attempt number n was given to writer.put_item *)
RunEnqueued(n) == Cardinality({j \in DOMAIN put_items : put_items[j] = RunItem(n)})

(* for the one item of the retry protocol, fallback path included: no run is
   omitted, and only the initial attempt of a retried test is enqueued more than
   once, namely twice *)
RunsEnqueued ==
    pc \in {"done", "finished"} =>
        \A i \in DOMAIN test.test_runs :
            RunEnqueued(i - 1) = (IF i = 1 /\ FinalStatusComputed THEN 2 ELSE 1)

(* C35: with Auto Test Retries the installed policy, retrying stops at the first
   run whose status is not FAIL: once the item is complete every run before the
   last one failed, the last run failed only if the cap of 6 runs was reached,
   and the final status of the test is the status of the last run alone. *)
C35_AtrStopsAtFirstNonFail ==
    (retry_handlers = <<ATR>> /\ pc = "finished" /\ selections # <<>>
        /\ test.test_runs # <<>>) =>
        /\ \A i \in 1..(Len(test.test_runs) - 1) : test.test_runs[i].status = FAIL
        /\ Len(test.test_runs) <= RetryCap
        /\ last_test_run(test).status = FAIL => Len(test.test_runs) = RetryCap
        /\ test.status = last_test_run(test).status

(* every TestRun has the status, and carries the diagnostic tags, that
   _get_test_outcome derives from the reports of its own execution, and between
   attempts and after the wrapper reports_by_nodeid has no entry for the item *)
RunOutcomeOwnExecution ==
    /\ Len(test.test_runs) <= Len(executed)
    /\ \A i \in DOMAIN test.test_runs :
          /\ test.test_runs[i].status = get_test_outcome(executed[i])[1]
          /\ get_test_outcome(executed[i])[2] \subseteq test.test_runs[i].tags
    /\ pc \in {"retrying", "done", "finished"} => stored_reports = None

(* C38: the status and the diagnostic tags of every TestRun come only from the
   reports of that run's own execution, and _get_test_outcome removes the item's
   stored reports and exception info: between attempts and after the wrapper
   neither reports_by_nodeid nor excinfo_by_report holds anything of an earlier
   execution, so nothing accumulates over a retry sequence. *)
C38_ReportsConsumedPerRun ==
    /\ RunOutcomeOwnExecution
    /\ pc \in {"retrying", "done", "finished"} => DOMAIN excinfo_by_report = {}

(* what stays behind: only exception info of phases after the phase that decided
   a failed or skipped run *)
LeftoverExcinfo ==
    \A k \in DOMAIN excinfo_by_report :
        pc \in {"retrying", "done", "finished"} =>
            /\ k[2] \in DOMAIN executed
            /\ get_test_outcome(executed[k[2]])[1] \in {FAIL, SKIP}
            /\ k[3] \notin get_test_outcome_from(executed[k[2]],
                                                 saved_excinfo(executed[k[2]]), 1).popped

(* the wrapper completed for an item run by another plugin's protocol:
   _check_applicable_retry_handlers was never called for it *)
FallbackTaken ==
    pc \in {"done", "finished"} /\ selections = <<>> /\ executed # <<>>

(* C39: when pytest_runtest_protocol_wrapper completes for an item, its Test has
   at least one TestRun and is finished; when our own protocol produced no run,
   exactly one fallback TestRun is made from the collected reports, finished and
   enqueued, and the test is never retried; no fallback run is made when a run
   already exists. *)
C39_FallbackRun ==
    /\ [](pc \in {"done", "finished"} =>
            /\ test.test_runs # <<>>
            /\ test.finished
            /\ \A i \in DOMAIN test.test_runs : test.test_runs[i].finished)
    /\ [](FallbackTaken =>
            /\ Len(test.test_runs) = 1
            /\ Len(executed) = 1
            /\ test.test_runs[1].attempt_number = 0
            /\ test.test_runs[1].status = get_test_outcome(executed[1])[1]
            /\ test.test_runs[1].tags = get_test_outcome(executed[1])[2]
            /\ RunEnqueued(0) = 1
            /\ retry_handler = None
            /\ calls = {})
    /\ [][(pc = "after" /\ pc' = "done") =>
            Len(test'.test_runs) = (IF test.test_runs = <<>> THEN 1
                                    ELSE Len(test.test_runs))]_vars

C39_Witness ==
    /\ FallbackTaken
    /\ Len(test.test_runs) = 1
    /\ test.test_runs[1].status = FAIL
    /\ test.test_runs[1].finished
    /\ put_items = <<RunItem(0), <<"TestSuite">>, <<"TestModule">>>>

----------------------------------------------------------------------------
(* SessionManager.finish_collection on sessions of many tests (specification
   SpecCollection): test references are numbers, the known tests are 1..k *)

MaxNewTests == 50
KnownSizes == {0, 30, 31, 93, 100}
Thresholds == {7, FaultySessionThreshold}

InitCollection ==
    /\ TreeIdle
    /\ SessionIdle
    /\ WriterIdle
    /\ pc = "collected"
    /\ settings \in [test_management : BOOLEAN, early_flake_detection : {TRUE},
                      auto_test_retries : BOOLEAN,
                      faulty_session_threshold : Thresholds]
    /\ \E k \in KnownSizes, n \in 0..MaxNewTests :
        \E j \in {0, k} :
           /\ known_tests = 1..k
           /\ collected_tests = (1..j) \cup ((k + 1)..(k + n))
    /\ test_properties = TestPropertiesDefault
    /\ retry_handlers = <<>>
    /\ test = NoTest
    /\ stored_reports = None
    /\ excinfo_by_report = <<>>
    /\ retry_reports = None
    /\ retry_longrepr = None
    /\ logged = <<>>
    /\ executed = <<>>
    /\ item = NoItem
    /\ retry_handler = None
    /\ calls = {}
    /\ selections = <<>>
    /\ put_items = <<>>

(* SessionManager.finish_collection *)
finish_collection ==
    /\ pc = "collected"
    /\ retry_handlers' = retry_handlers
                         \o setup_retry_handlers(settings, known_tests, collected_tests)
    /\ pc' = "configured"
    /\ UNCHANGED <<treeVars, writerVars, sessVars, settings, known_tests, collected_tests,
                   test_properties, test, stored_reports, excinfo_by_report, retry_reports,
                   retry_longrepr, logged, executed, item, retry_handler, calls,
                   selections, put_items>>

NextCollection == finish_collection

SpecCollection == InitCollection /\ [][NextCollection]_vars

(* C17: with EFD enabled and a non-empty catalog, EFD is not installed exactly
   when |known| > threshold and 100 * |new| / (|new| + |known|) > threshold, for
   new = discovered - known. *)
C17_FaultySessionGuard ==
    (pc = "configured" /\ known_tests # {}) =>
        LET new == Cardinality(collected_tests \ known_tests)
            known == Cardinality(known_tests)
            threshold == settings.faulty_session_threshold
        IN  (EFD \notin Range(retry_handlers))
                <=> (known > threshold /\ 100 * new > threshold * (new + known))

----------------------------------------------------------------------------
(* The report functions of the plugin applied to the report group of one
   execution (specification SpecReports) *)

InitReports ==
    /\ TreeIdle
    /\ SessionIdle
    /\ WriterIdle
    /\ pc = "reports"
    /\ settings = SettingsDefault
    /\ known_tests = {}
    /\ test_properties = TestPropertiesDefault
    /\ collected_tests = {}
    /\ retry_handlers = <<>>
    /\ test = NoTest
    /\ stored_reports \in ReportGroups
    /\ excinfo_by_report = save_excinfo(<<>>, ItemRef, 1, stored_reports)
    /\ retry_reports = None
    /\ retry_longrepr = None
    /\ logged = <<>>
    /\ executed = <<stored_reports>>
    /\ item = NoItem
    /\ retry_handler = None
    /\ calls = {}
    /\ selections = <<>>
    /\ put_items = <<>>

(* _mark_test_reports_as_quarantined(item, reports) *)
reports_mark_as_quarantined ==
    /\ pc = "reports"
    /\ retry_reports' = mark_test_reports_as_quarantined(stored_reports)
    /\ pc' = "quarantined"
    /\ UNCHANGED <<treeVars, writerVars, sessVars, settings, known_tests, collected_tests,
                   retry_handlers, test_properties, test, stored_reports, excinfo_by_report,
                   retry_longrepr, logged, executed, item, retry_handler, calls,
                   selections, put_items>>

(* _mark_test_reports_as_retry(reports, retry_handler) *)
reports_mark_as_retry ==
    /\ pc = "reports"
    /\ \E h \in Handlers :
           /\ retry_handler' = h
           /\ retry_reports' = mark_test_reports_as_retry(stored_reports, h)
    /\ pc' = "retry"
    /\ UNCHANGED <<treeVars, writerVars, sessVars, settings, known_tests, collected_tests,
                   retry_handlers, test_properties, test, stored_reports, excinfo_by_report,
                   retry_longrepr, logged, executed, item, calls, selections,
                   put_items>>

(* _log_test_reports(item, reports) on the marked group *)
reports_log ==
    /\ pc \in {"quarantined", "retry"}
    /\ logged' = log_test_reports(retry_reports)
    /\ pc' = "logged"
    /\ UNCHANGED <<treeVars, writerVars, sessVars, settings, known_tests, collected_tests,
                   retry_handlers, test_properties, test, stored_reports, excinfo_by_report,
                   retry_reports, retry_longrepr, executed, item, retry_handler,
                   calls, selections, put_items>>

(* _do_one_test_run after runtestprotocol: _get_test_outcome pops the stored
   reports and gives the new TestRun its status and tags *)
reports_get_test_outcome ==
    /\ pc = "reports"
    /\ test' = do_one_test_run(test, stored_reports)
    /\ stored_reports' = None
    /\ excinfo_by_report' = pop_excinfo(excinfo_by_report, ItemRef, 1, stored_reports)
    /\ pc' = "outcome"
    /\ UNCHANGED <<treeVars, writerVars, sessVars, settings, known_tests, collected_tests,
                   retry_handlers, test_properties, retry_reports, retry_longrepr,
                   logged, executed, item, retry_handler, calls, selections,
                   put_items>>

NextReports ==
    \/ reports_mark_as_quarantined
    \/ reports_mark_as_retry
    \/ reports_log
    \/ reports_get_test_outcome

SpecReports == InitReports /\ [][NextReports]_vars

(* C15: after _mark_test_reports_as_quarantined, a group with a call report has
   call "skipped" with reason "Quarantined" and setup and teardown "passed"; a
   group without one has setup "skipped" with that reason and teardown "passed";
   no report of the group has outcome "failed", whatever the outcomes were. *)
C15_QuarantineReportRewriting ==
    pc = "quarantined" =>
        LET before == executed[1]
            after == retry_reports
        IN  /\ IF before.call # NoReport
               THEN /\ after.call.outcome = SKIPPED
                    /\ after.call.longrepr = QUARANTINED_LONGREPR
                    /\ after.setup.outcome = PASSED
               ELSE /\ after.call = NoReport
                    /\ after.setup.outcome = SKIPPED
                    /\ after.setup.longrepr = QUARANTINED_LONGREPR
            /\ after.teardown.outcome = PASSED
            /\ \A i \in DOMAIN TestPhase : after[TestPhase[i]].outcome # FAILED

C15_Witness ==
    /\ pc = "quarantined"
    /\ executed[1].call # NoReport
    /\ executed[1].call.outcome = FAILED
    /\ executed[1].teardown.outcome = FAILED
    /\ retry_reports.call.outcome = SKIPPED
    /\ retry_reports.teardown.outcome = PASSED

----------------------------------------------------------------------------
(* TestItem (internal/recorder.py): the result tree *)

(* child names are opaque keys of self.children: a node gets its children in
   the order "a", "b", which leaves out no tree up to a renaming of its nodes *)
ChildNames == {"a", "b"}
MaxNodes == 3

(* TestSession > TestModule > TestSuite > Test > TestRun: ChildClass is defined
   down to Test *)
HierarchyDepth == 4

children(ns, n) == {c \in ns : Len(c) = Len(n) + 1 /\ SubSeq(c, 1, Len(n)) = n}

(* mutant: any skipped child makes the aggregate SKIP *)
Mutant_status_from_counts_any_skip(fail_count, skip_count, total_count) ==
    IF fail_count > 0 THEN FAIL
    ELSE IF skip_count > 0 THEN SKIP
    ELSE PASS

(* the three returns of _get_status_from_children, from its counters *)
status_from_counts(fail_count, skip_count, total_count) ==
    IF fail_count > 0 THEN FAIL
    ELSE IF skip_count = total_count THEN SKIP
    ELSE PASS

(* _get_status_from_children once child.get_status() has been called on every
   child and left the statuses st: children without a status are not counted *)
aggregate(ns, st, n) ==
    status_from_counts(Cardinality({c \in children(ns, n) : st[c] = FAIL}),
                       Cardinality({c \in children(ns, n) : st[c] = SKIP}),
                       Cardinality({c \in children(ns, n) : st[c] # None}))

(* get_status() assigns self.status on its way: the statuses of all nodes after
   get_status() on n, respectively after get_status() on every node of cs *)
RECURSIVE after_get_status(_, _, _), after_children_get_status(_, _, _)
after_get_status(ns, st, n) ==
    IF children(ns, n) # {}
    THEN LET st1 == after_children_get_status(ns, st, children(ns, n))
         IN  [st1 EXCEPT ![n] = aggregate(ns, st1, n)]
    ELSE st
after_children_get_status(ns, st, cs) ==
    IF cs = {} THEN st
    ELSE LET c == CHOOSE x \in cs : TRUE
         IN  after_children_get_status(ns, after_get_status(ns, st, c), cs \ {c})

InitTree ==
    /\ TreeIdle
    /\ SessionIdle
    /\ WriterIdle
    /\ pc = "tree"
    /\ settings = SettingsDefault
    /\ known_tests = {}
    /\ test_properties = TestPropertiesDefault
    /\ collected_tests = {}
    /\ retry_handlers = <<>>
    /\ test = NoTest
    /\ stored_reports = None
    /\ excinfo_by_report = <<>>
    /\ retry_reports = None
    /\ retry_longrepr = None
    /\ logged = <<>>
    /\ executed = <<>>
    /\ item = NoItem
    /\ retry_handler = None
    /\ calls = {}
    /\ selections = <<>>
    /\ put_items = <<>>

(* mutant: a child object is made on every call *)
Mutant_is_absent_always(ns, child) == TRUE

(* `name not in self.children` *)
is_absent(ns, child) == child \notin ns

(* get_or_create_child: a new ChildClass object under the name when the name is
   absent, the object already there otherwise *)
get_or_create_child ==
    \E n \in nodes, name \in ChildNames :
        LET child == Append(n, name)
            created == is_absent(nodes, child)
        IN  /\ Len(n) < HierarchyDepth
            /\ child \notin nodes => Cardinality(nodes) < MaxNodes
            /\ name = "b" => Append(n, "a") \in nodes
            /\ nodes' = nodes \cup {child}
            /\ status' = IF ~created THEN status
                         ELSE [c \in nodes' |-> IF c = child THEN None ELSE status[c]]
            /\ explicit' = IF ~created THEN explicit
                           ELSE [c \in nodes' |-> IF c = child THEN None ELSE explicit[c]]
            /\ objects' = IF ~created THEN objects
                          ELSE [c \in nodes' |->
                                   IF c # child THEN objects[c]
                                   ELSE IF child \in nodes THEN objects[c] + 1 ELSE 1]
            /\ ret' = [op |-> "get_or_create_child", node |-> child,
                       value |-> created]
            /\ UNCHANGED <<protoVars, writerVars, sessVars>>

set_status ==
    \E n \in nodes, s \in TestStatus :
        /\ status' = [status EXCEPT ![n] = s]
        /\ explicit' = [explicit EXCEPT ![n] = s]
        /\ ret' = [op |-> "set_status", node |-> n, value |-> s]
        /\ UNCHANGED <<nodes, objects, protoVars, writerVars, sessVars>>

get_status ==
    \E n \in nodes :
        /\ status' = after_get_status(nodes, status, n)
        /\ ret' = [op |-> "get_status", node |-> n, value |-> status'[n]]
        /\ UNCHANGED <<nodes, explicit, objects, protoVars, writerVars, sessVars>>

get_status_from_children ==
    \E n \in nodes :
        /\ status' = after_children_get_status(nodes, status, children(nodes, n))
        /\ ret' = [op |-> "get_status_from_children", node |-> n,
                   value |-> aggregate(nodes, status', n)]
        /\ UNCHANGED <<nodes, explicit, objects, protoVars, writerVars, sessVars>>

NextTree ==
    \/ get_or_create_child
    \/ set_status
    \/ get_status
    \/ get_status_from_children

SpecTree == InitTree /\ [][NextTree]_vars

----------------------------------------------------------------------------
(* Properties of the result tree (specification SpecTree) *)

IsStatusCall == ret.op \in {"get_status", "get_status_from_children"}

(* C7: when get_status() or _get_status_from_children() is called on a node that
   has at least one child and no explicit status, and every child's status is
   PASS, FAIL or SKIP, the result is FAIL if some child is FAIL, otherwise SKIP
   if all children are SKIP, otherwise PASS. *)
C7_StatusAggregation ==
    (/\ IsStatusCall
     /\ children(nodes, ret.node) # {}
     /\ explicit[ret.node] = None
     /\ \A c \in children(nodes, ret.node) : status[c] \in TestStatus)
    => ret.value =
           (IF \E c \in children(nodes, ret.node) : status[c] = FAIL THEN FAIL
            ELSE IF \A c \in children(nodes, ret.node) : status[c] = SKIP THEN SKIP
            ELSE PASS)

C7_Witness ==
    /\ ret.op = "get_status"
    /\ ret.node = <<>>
    /\ explicit[<<>>] = None
    /\ Cardinality(children(nodes, <<>>)) = 2
    /\ {status[c] : c \in children(nodes, <<>>)} = {PASS, SKIP}
    /\ ret.value = PASS

(* C8: get_status() and _get_status_from_children() both return SKIP on a node
   that has no children and no explicit status. *)
C8_ChildlessNodeIsSkip ==
    (/\ IsStatusCall
     /\ children(nodes, ret.node) = {}
     /\ explicit[ret.node] = None)
    => ret.value = SKIP

(* C9: once set_status(s) has been called on a node, its status stays s and
   every get_status() on it returns s, whatever its children are. *)
C9_ExplicitStatusWins ==
    /\ \A n \in nodes : explicit[n] # None => status[n] = explicit[n]
    /\ (ret.op = "get_status" /\ explicit[ret.node] # None)
           => ret.value = explicit[ret.node]

(* C24: get_or_create_child keeps one child object per name: created is true
   exactly on the call that finds the name absent, a later call for the name
   returns the object already there with created false, and no child is ever
   removed or replaced. *)
C24_CreateIfAbsent ==
    /\ [](\A n \in nodes : objects[n] = 1)
    /\ [](\A n \in nodes : n # <<>> => SubSeq(n, 1, Len(n) - 1) \in nodes)
    /\ [][/\ nodes \subseteq nodes'
          /\ \A n \in nodes : objects'[n] = objects[n]]_vars
    /\ [][ret'.op = "get_or_create_child" =>
            /\ ret'.node \in nodes'
            /\ ret'.value <=> ret'.node \notin nodes
            /\ ret'.value => nodes' = nodes \cup {ret'.node}
            /\ ~ret'.value => UNCHANGED <<nodes, status, explicit, objects>>]_vars

C24_Witness ==
    /\ ret.op = "get_or_create_child"
    /\ ret.value = FALSE
    /\ status[ret.node] # None
    /\ Cardinality(nodes) = MaxNodes

----------------------------------------------------------------------------
(* TestOptWriter (internal/writer.py): the event queue, its producers and the
   background flush task *)

NumProducers == 2
EventsPerProducer == 1
MaxFlushes == 1

Producers == 1..NumProducers
Consumer == 0

(* mutant: the critical sections are entered without waiting for the lock *)
Mutant_can_acquire_always(l, thread) == TRUE

(* `with self.lock`: the lock is free (no thread takes it twice here) *)
can_acquire(l, thread) == l = Unlocked

InitWriter ==
    /\ lock = Unlocked
    /\ lists = <<<<>>>>
    /\ self_events = 1
    /\ ppc = [p \in Producers |-> "idle"]
    /\ pref = [p \in Producers |-> 0]
    /\ pnext = [p \in Producers |-> 0]
    /\ cpc = "waiting"
    /\ cref = 0
    /\ sent = <<>>
    /\ nflush = 0
    /\ failed = {}
    /\ should_finish = FALSE
    /\ mpc = "running"
    /\ TreeIdle
    /\ SessionIdle
    /\ pc = "writer"
    /\ settings = SettingsDefault
    /\ known_tests = {}
    /\ test_properties = TestPropertiesDefault
    /\ collected_tests = {}
    /\ retry_handlers = <<>>
    /\ test = NoTest
    /\ stored_reports = None
    /\ excinfo_by_report = <<>>
    /\ retry_reports = None
    /\ retry_longrepr = None
    /\ logged = <<>>
    /\ executed = <<>>
    /\ item = NoItem
    /\ retry_handler = None
    /\ calls = {}
    /\ selections = <<>>
    /\ put_items = <<>>

(* put_event, line 75: with self.lock *)
put_event_acquire ==
    \E p \in Producers :
        /\ ppc[p] = "idle"
        /\ pnext[p] < EventsPerProducer
        /\ mpc = "running"
        /\ can_acquire(lock, p)
        /\ lock' = p
        /\ ppc' = [ppc EXCEPT ![p] = "locked"]
        /\ UNCHANGED <<lists, self_events, pref, pnext, cpc, cref, sent, nflush,
                       should_finish, mpc, failed, protoVars,
                   treeVars, sessVars>>

(* put_event, line 76: the list self.events refers to is loaded ... *)
put_event_load ==
    \E p \in Producers :
        /\ ppc[p] = "locked"
        /\ pref' = [pref EXCEPT ![p] = self_events]
        /\ ppc' = [ppc EXCEPT ![p] = "loaded"]
        /\ UNCHANGED <<lock, lists, self_events, pnext, cpc, cref, sent, nflush,
                       should_finish, mpc, failed, protoVars,
                   treeVars, sessVars>>

(* ... and the event is appended to it *)
put_event_append ==
    \E p \in Producers :
        /\ ppc[p] = "loaded"
        /\ lists' = [lists EXCEPT ![pref[p]] = Append(@, <<p, pnext[p] + 1>>)]
        /\ pnext' = [pnext EXCEPT ![p] = @ + 1]
        /\ ppc' = [ppc EXCEPT ![p] = "appended"]
        /\ UNCHANGED <<lock, self_events, pref, cpc, cref, sent, nflush,
                       should_finish, mpc, failed, protoVars,
                   treeVars, sessVars>>

(* put_event: the with block is left *)
put_event_release ==
    \E p \in Producers :
        /\ ppc[p] = "appended"
        /\ lock' = Unlocked
        /\ ppc' = [ppc EXCEPT ![p] = "idle"]
        /\ UNCHANGED <<lists, self_events, pref, pnext, cpc, cref, sent, nflush,
                       should_finish, mpc, failed, protoVars,
                   treeVars, sessVars>>

(* _periodic_task, line 100: should_finish.wait returns, on the interval's
   expiry or because the event is set *)
periodic_task_wake ==
    /\ cpc = "waiting"
    /\ \/ /\ should_finish
          /\ UNCHANGED nflush
       \/ /\ ~should_finish
          /\ nflush < MaxFlushes
          /\ nflush' = nflush + 1
    /\ cpc' = "flush"
    /\ UNCHANGED <<lock, lists, self_events, ppc, pref, pnext, cref, sent,
                   should_finish, mpc, failed, protoVars,
                   treeVars, sessVars>>

(* pop_events, line 79: with self.lock *)
pop_events_acquire ==
    /\ cpc = "flush"
    /\ can_acquire(lock, Consumer)
    /\ lock' = Consumer
    /\ cpc' = "locked"
    /\ UNCHANGED <<lists, self_events, ppc, pref, pnext, cref, sent, nflush,
                   should_finish, mpc, failed, protoVars,
                   treeVars, sessVars>>

(* pop_events, line 80: events = self.events *)
pop_events_read ==
    /\ cpc = "locked"
    /\ cref' = self_events
    /\ cpc' = "read"
    /\ UNCHANGED <<lock, lists, self_events, ppc, pref, pnext, sent, nflush,
                   should_finish, mpc, failed, protoVars,
                   treeVars, sessVars>>

(* pop_events, line 81: self.events = [] *)
pop_events_swap ==
    /\ cpc = "read"
    /\ lists' = Append(lists, <<>>)
    /\ self_events' = Len(lists) + 1
    /\ cpc' = "swapped"
    /\ UNCHANGED <<lock, ppc, pref, pnext, cref, sent, nflush, should_finish, mpc,
                   failed, protoVars,
                   treeVars, sessVars>>

(* pop_events: the with block is left and the list is returned *)
pop_events_release ==
    /\ cpc = "swapped"
    /\ lock' = Unlocked
    /\ cpc' = "popped"
    /\ UNCHANGED <<lists, self_events, ppc, pref, pnext, cref, sent, nflush,
                   should_finish, mpc, failed, protoVars,
                   treeVars, sessVars>>

(* mutant: the loop goes back to waiting whatever the flag says *)
Mutant_periodic_task_never_breaks(is_set) == FALSE

(* _periodic_task, lines 104-105: if self.should_finish.is_set(): break *)
periodic_task_break(is_set) == is_set

(* flush, lines 110-112, and the test of should_finish that follows it in
   _periodic_task: a non-empty batch is passed to _send_events, which returns *)
flush_send ==
    /\ cpc = "popped"
    /\ sent' = IF lists[cref] # <<>> THEN Append(sent, lists[cref]) ELSE sent
    /\ cref' = 0
    /\ cpc' = IF periodic_task_break(should_finish) THEN "exited" ELSE "waiting"
    /\ UNCHANGED <<lock, lists, self_events, ppc, pref, pnext, nflush,
                   should_finish, mpc, failed, protoVars,
                   treeVars, sessVars>>

(* finish, line 94: called by the orchestrating thread once it has enqueued
   its events *)
finish_signal ==
    /\ mpc = "running"
    /\ \A p \in Producers : ppc[p] = "idle"
    /\ should_finish' = TRUE
    /\ mpc' = "joining"
    /\ UNCHANGED <<lock, lists, self_events, ppc, pref, pnext, cpc, cref, sent,
                   nflush, failed, protoVars,
                   treeVars, sessVars>>

(* finish, line 95: task.join() returns once the thread has ended *)
finish_join ==
    /\ mpc = "joining"
    /\ cpc \in {"exited", "died"}
    /\ mpc' = "finished"
    /\ UNCHANGED <<lock, lists, self_events, ppc, pref, pnext, cpc, cref, sent,
                   nflush, should_finish, failed, protoVars,
                   treeVars, sessVars>>

NextWriter ==
    \/ put_event_acquire
    \/ put_event_load
    \/ put_event_append
    \/ put_event_release
    \/ periodic_task_wake
    \/ pop_events_acquire
    \/ pop_events_read
    \/ pop_events_swap
    \/ pop_events_release
    \/ flush_send
    \/ finish_signal
    \/ finish_join

SpecWriter == InitWriter /\ [][NextWriter]_vars

(* the threads are scheduled: the flush thread takes its next step when it can,
   and join() returns when the thread has ended *)
periodic_task_step ==
    \/ periodic_task_wake
    \/ pop_events_acquire
    \/ pop_events_read
    \/ pop_events_swap
    \/ pop_events_release
    \/ flush_send

SpecWriterFair ==
    SpecWriter /\ WF_vars(periodic_task_step) /\ WF_vars(finish_join)

(* _send_events, lines 121-123: connector.request returns an error response,
   which _send_events does not look at; the batch is gone *)
flush_send_error_response ==
    /\ cpc = "popped"
    /\ lists[cref] # <<>>
    /\ sent' = Append(sent, lists[cref])
    /\ failed' = failed \cup {Len(sent) + 1}
    /\ cref' = 0
    /\ cpc' = IF periodic_task_break(should_finish) THEN "exited" ELSE "waiting"
    /\ UNCHANGED <<lock, lists, self_events, ppc, pref, pnext, nflush,
                   should_finish, mpc, protoVars, treeVars, sessVars>>

(* _send_events, lines 120-123: msgpack.packb or connector.request raises; neither
   _send_events, flush nor _periodic_task catches, so the thread ends *)
flush_send_raises ==
    /\ cpc = "popped"
    /\ lists[cref] # <<>>
    /\ sent' = Append(sent, lists[cref])
    /\ failed' = failed \cup {Len(sent) + 1}
    /\ cref' = 0
    /\ cpc' = "died"
    /\ UNCHANGED <<lock, lists, self_events, ppc, pref, pnext, nflush,
                   should_finish, mpc, protoVars, treeVars, sessVars>>

NextWriterFaults ==
    \/ NextWriter
    \/ flush_send_error_response
    \/ flush_send_raises

SpecWriterFaults == InitWriter /\ [][NextWriterFaults]_vars

----------------------------------------------------------------------------
(* Properties of the writer (specification SpecWriter) *)

RECURSIVE Flatten(_)
Flatten(batches) ==
    IF batches = <<>> THEN <<>> ELSE Head(batches) \o Flatten(Tail(batches))

Enqueued == {<<p, k>> : p \in Producers, k \in 1..EventsPerProducer} \cap
            {e \in Producers \X (1..EventsPerProducer) : e[2] <= pnext[e[1]]}

(* the batch the consumer has popped and not yet passed to _send_events *)
Popped == IF cpc \in {"swapped", "popped"} THEN lists[cref] ELSE <<>>

(* every event in the order in which the backend gets or will get it *)
Pipeline == Flatten(sent) \o Popped \o lists[self_events]

Occurrences(seq, e) == Cardinality({i \in DOMAIN seq : seq[i] = e})

(* C10: in every interleaving of the producers with the flushing consumer, every
   enqueued event is in exactly one place: one batch passed to _send_events, the
   batch just popped, or the queue; no other event is anywhere; the events of one
   producer keep their insertion order; and once the queue is drained the number
   of events passed to _send_events is the number enqueued. *)
C10_FlushAtomicity ==
    /\ \A e \in Enqueued : Occurrences(Pipeline, e) = 1
    /\ Len(Pipeline) = Cardinality(Enqueued)
    /\ \A i, j \in DOMAIN Pipeline :
           (i < j /\ Pipeline[i][1] = Pipeline[j][1]) => Pipeline[i][2] < Pipeline[j][2]
    /\ \A b \in DOMAIN sent : sent[b] # <<>>
    /\ (lists[self_events] = <<>> /\ Popped = <<>>)
           => Len(Flatten(sent)) = Cardinality(Enqueued)

C10_Witness ==
    /\ Len(sent) >= 2
    /\ \A p \in Producers : pnext[p] = EventsPerProducer
    /\ Len(Flatten(sent)) = NumProducers * EventsPerProducer
    /\ mpc = "finished"

(* C11: when finish() has returned, every event enqueued before finish() was
   called has been passed to _send_events exactly once. *)
C11_ShutdownDrains ==
    mpc = "finished" => \A e \in Enqueued : Occurrences(Flatten(sent), e) = 1

(* C12: a batch whose _send_events failed is not sent again, and the failure
   leaves the background flush loop running. *)
C12_SendFailureNotFatal ==
    /\ \A e \in Enqueued : Occurrences(Flatten(sent), e) <= 1
    /\ failed # {} => cpc # "died"

(* C13: a flush that completes once finish() has set the flag is the loop's
   last one, and from the moment the flag is set finish() eventually returns
   (every _send_events call returns). *)
C13_CooperativeShutdown ==
    /\ [][(should_finish /\ cpc = "popped" /\ cpc' # cpc) => cpc' = "exited"]_vars
    /\ (should_finish ~> mpc = "finished")

C13_Witness ==
    /\ mpc = "finished"
    /\ cpc = "exited"
    /\ should_finish
    /\ nflush = MaxFlushes
    /\ Len(sent) = 1

----------------------------------------------------------------------------
(* A whole session: the items of session.items through the hooks of the plugin,
   each with the outcomes its test body produces *)

MaxItems == 3

(* TestRef(SuiteRef(ModuleRef(module), suite), name) *)
TestRef(module, suite, name) == [module |-> module, suite |-> suite, name |-> name]

(* nextitem is None *)
NoRef == [module |-> "", suite |-> "", name |-> ""]

SuiteRef(ref) == [module |-> ref.module, name |-> ref.suite]

ModuleRef(ref) == [name |-> ref.module]

(* the tree nodes of a reference: session.children[module].children[suite]
   .children[name] *)
module_path(ref) == <<ref.module>>
suite_path(ref) == <<ref.module, ref.suite>>
test_path(ref) == <<ref.module, ref.suite, ref.name>>

SessionRefs ==
    {TestRef("m1", "s1", "A"), TestRef("m1", "s1", "B"), TestRef("m1", "s1", "C"),
     TestRef("m1", "s2", "B"), TestRef("m2", "s1", "C")}

Levels == {"module", "suite", "test"}

(* the test bodies: A always passes, B always fails, C fails twice then passes *)
body_outcome(name, k) ==
    CASE name = "A" -> PASSED
      [] name = "B" -> FAILED
      [] name = "C" -> IF k <= 2 THEN FAILED ELSE PASSED

(* the k-th runtestprotocol(item, log=False) of an item *)
execution(it, name, k) ==
    IF it.skip_marker # ""
    THEN [setup |-> ReportOf(SKIPPED, it.skip_marker), call |-> NoReport,
          teardown |-> ReportOf(PASSED, "")]
    ELSE [setup |-> ReportOf(PASSED, ""), call |-> ReportOf(body_outcome(name, k), ""),
          teardown |-> ReportOf(PASSED, "")]

SessionLayouts ==
    {l \in UNION {[1..n -> SessionRefs] : n \in 1..MaxItems} :
        \A i, j \in DOMAIN l : i # j => l[i] # l[j]}

SessionSettings ==
    {SettingsDefault,
     [SettingsDefault EXCEPT !.early_flake_detection = TRUE, !.auto_test_retries = TRUE]}

InitSession ==
    /\ pc = "collection"
    /\ settings \in SessionSettings
    /\ known_tests = {r \in SessionRefs : r.name # "C"}
    /\ test_properties = TestPropertiesDefault
    /\ collected_tests = {}
    /\ retry_handlers = <<>>
    /\ test = NoTest
    /\ stored_reports = None
    /\ excinfo_by_report = <<>>
    /\ retry_reports = None
    /\ retry_longrepr = None
    /\ logged = <<>>
    /\ executed = <<>>
    /\ item = NoItem
    /\ retry_handler = None
    /\ calls = {}
    /\ selections = <<>>
    /\ put_items = <<>>
    /\ TreeIdle
    /\ WriterIdle
    /\ \E l \in SessionLayouts, raises \in SUBSET Levels :
          session_items = [i \in DOMAIN l |-> [ref |-> l[i], raises |-> raises]] \o <<>>
    /\ cursor = 1
    /\ tests = <<>>
    /\ finish_calls = <<>>
    /\ callbacks = <<>>
    /\ git_tags = GitTags
    /\ is_xdist_worker \in BOOLEAN
    /\ api_calls = <<>>
    /\ raised = None

(* one more finish() on node p *)
finish(fc, p) ==
    [q \in DOMAIN fc \cup {p} |->
        IF q = p THEN (IF p \in DOMAIN fc THEN fc[p] + 1 ELSE 1) ELSE fc[q]]

RECURSIVE finish_all(_, _)
finish_all(fc, ps) ==
    IF ps = <<>> THEN fc ELSE finish_all(finish(fc, Head(ps)), Tail(ps))

(* TestItem.is_finished *)
is_finished(fc, p) == p \in DOMAIN fc

(* on_new_*(node) inside try/except: the call and whether it raised, which is
   logged and goes no further *)
callback(level, node, it) ==
    <<[level |-> level, node |-> node, raised |-> level \in it.raises]>>

(* mutant: the callback is invoked whether or not the node was created *)
Mutant_on_new_always(created, level, node, it) == callback(level, node, it)

(* `if created: try: on_new_*(node) except: log.exception(...)` *)
on_new(created, level, node, it) ==
    IF created THEN callback(level, node, it) ELSE <<>>

(* SessionManager.discover_test: the three get_or_create_child calls, each
   followed, when it created the node, by the on_new_* callback inside try/except *)
session_discover_test(it) ==
    LET ref == it.ref
        mp == module_path(ref)
        sp == suite_path(ref)
        tp == test_path(ref)
        created_m == is_absent(nodes, mp)
        created_s == is_absent(nodes \cup {mp}, sp)
        created_t == is_absent(nodes \cup {mp, sp}, tp)
        made == (IF created_m THEN {mp} ELSE {}) \cup (IF created_s THEN {sp} ELSE {})
                \cup (IF created_t THEN {tp} ELSE {})
    IN  /\ nodes' = nodes \cup {mp, sp, tp}
        /\ status' = [c \in nodes' |-> IF c \in made THEN None ELSE status[c]]
        /\ explicit' = [c \in nodes' |-> IF c \in made THEN None ELSE explicit[c]]
        /\ objects' = [c \in nodes' |->
                          IF c \notin made THEN objects[c]
                          ELSE IF c \in nodes THEN objects[c] + 1 ELSE 1]
        /\ ret' = [op |-> "discover_test", node |-> tp, value |-> <<mp, sp, tp>>]
        /\ callbacks' = callbacks
                        \o on_new(created_m, "module", mp, it)
                        \o on_new(created_s, "suite", sp, it)
                        \o on_new(created_t, "test", tp, it)
        /\ collected_tests' = IF created_t THEN collected_tests \cup {ref}
                              ELSE collected_tests
        /\ tests' = IF ~created_t THEN tests
                    ELSE [p \in DOMAIN tests \cup {tp} |->
                             IF p = tp
                             THEN discover_test(NoTest, ref, known_tests, test_properties)
                             ELSE tests[p]]

(* end of collection, item by item: every collected item is discovered *)
session_collection_item ==
    /\ pc = "collection"
    /\ cursor <= Len(session_items)
    /\ session_discover_test(session_items[cursor])
    /\ cursor' = cursor + 1
    /\ UNCHANGED <<writerVars, consVars, pc, settings, known_tests, retry_handlers, test_properties,
                   test, stored_reports, excinfo_by_report, retry_reports, retry_longrepr, logged, executed,
                   item, retry_handler, calls, selections, put_items, session_items,
                   finish_calls>>

(* end of collection: SessionManager.finish_collection installs the retry handlers *)
session_finish_collection ==
    /\ pc = "collection"
    /\ cursor > Len(session_items)
    /\ retry_handlers' = retry_handlers
                         \o setup_retry_handlers(settings, known_tests, collected_tests)
    /\ cursor' = 1
    /\ pc' = "wrapper"
    /\ UNCHANGED <<treeVars, writerVars, consVars, settings, known_tests, collected_tests,
                   test_properties, test, stored_reports, excinfo_by_report, retry_reports, retry_longrepr,
                   logged, executed, item, retry_handler, calls, selections, put_items,
                   session_items, tests, finish_calls, callbacks>>

(* pytest_runtest_protocol_wrapper up to its yield *)
session_wrapper_before ==
    /\ pc = "wrapper"
    /\ session_discover_test(session_items[cursor])
    /\ item' = test_management_gate(NoItem, tests'[test_path(session_items[cursor].ref)])
    /\ pc' = "protocol"
    /\ UNCHANGED <<writerVars, consVars, settings, known_tests, retry_handlers, test_properties, test,
                   stored_reports, excinfo_by_report, retry_reports, retry_longrepr, logged, executed,
                   retry_handler, calls, selections, put_items, session_items, cursor,
                   finish_calls>>

(* the while loop of _do_retries: the test, the reports logged and the report
   group of the last execution when the loop is left *)
RECURSIVE retry_loop(_, _, _, _, _)
retry_loop(handler, t, it, name, log) ==
    LET rs == execution(it, name, Len(t.test_runs) + 1)
        t1 == do_one_test_run(t, rs)
        again == should_retry(handler, t1)
        retry_rs == mark_test_reports_as_retry(rs, handler)
        t2 == set_last_run(
                  add_tags_last_run(t1, get_tags_for_test_run(handler, last_test_run(t1))),
                  "finished", TRUE)
        log2 == log \o (IF log_test_report(retry_rs, "call") # <<>>
                        THEN log_test_report(retry_rs, "call")
                        ELSE log_test_report(retry_rs, "setup"))
    IN  IF again THEN retry_loop(handler, t2, it, name, log2)
        ELSE [test |-> t2, logged |-> log2, reports |-> retry_rs]

RECURSIVE run_paths(_, _)
run_paths(tp, runs) ==
    IF runs = <<>> THEN <<>>
    ELSE <<Append(tp, Head(runs).attempt_number)>> \o run_paths(tp, Tail(runs))

RECURSIVE run_items(_)
run_items(ps) ==
    IF ps = <<>> THEN <<>>
    ELSE <<[type |-> "TestRun", node |-> Head(ps), status |-> None]>> \o run_items(Tail(ps))

(* pytest_runtest_protocol = _do_test_runs, to its end: the test, the reports
   logged and the items given to the writer *)
do_test_runs_result(hs, t, it, tp, name) ==
    LET handler == check_applicable_retry_handlers(hs, t)
        rs == execution(it, name, 1)
        t1 == do_one_test_run(t, rs)
        masked == t.is_quarantined \/ t.is_disabled
    IN  IF handler # None /\ should_retry(handler, t1)
        THEN LET retry_rs == mark_test_reports_as_retry(rs, handler)
                 first == set_last_run(
                              add_tags_last_run(t1,
                                  get_tags_for_test_run(handler, last_test_run(t1))),
                              "finished", TRUE)
                 loop == retry_loop(handler, first, it, name,
                                    log_test_report(retry_rs, "setup")
                                    \o log_test_report(retry_rs, "call"))
                 final_status == get_final_status(handler, loop.test)
                 final_report == make_final_report(final_status, extract_longrepr(rs))
             IN  [handler |-> handler,
                  test |-> [loop.test EXCEPT !.status = final_status],
                  logged |-> loop.logged
                      \o <<Logged("call",
                                  IF masked
                                  THEN mark_test_report_as_quarantined("call", final_report)
                                  ELSE final_report)>>
                      \o <<Logged("teardown",
                                  IF masked
                                  THEN mark_test_report_as_quarantined("teardown",
                                                                       loop.reports.teardown)
                                  ELSE loop.reports.teardown)>>,
                  put |-> run_items(<<Append(tp, 0)>>
                                    \o run_paths(tp, loop.test.test_runs))]
        ELSE [handler |-> handler,
              test |-> set_last_run(t1, "finished", TRUE),
              logged |-> log_test_reports(IF masked
                                          THEN mark_test_reports_as_quarantined(rs)
                                          ELSE rs),
              put |-> run_items(<<Append(tp, 0)>>)]

(* excinfo_by_report after the first k executions of the item *)
RECURSIVE session_excinfo(_, _, _, _, _)
session_excinfo(excinfos, tp, it, name, k) ==
    IF k = 0 THEN excinfos
    ELSE LET rs == execution(it, name, k)
         IN  pop_excinfo(save_excinfo(session_excinfo(excinfos, tp, it, name, k - 1),
                                      tp, k, rs),
                         tp, k, rs)

(* pytest_runtest_protocol for the current item *)
session_runtest_protocol ==
    /\ pc = "protocol"
    /\ LET ref == session_items[cursor].ref
           tp == test_path(ref)
           result == do_test_runs_result(retry_handlers, tests[tp], item, tp, ref.name)
       IN  /\ tests' = [tests EXCEPT ![tp] = result.test]
           /\ status' = [status EXCEPT ![tp] = result.test.status]
           /\ explicit' = [explicit EXCEPT ![tp] = result.test.status]
           /\ logged' = logged \o result.logged
           /\ put_items' = put_items \o result.put
           /\ finish_calls' = finish_all(finish_calls, run_paths(tp, result.test.test_runs))
           /\ selections' = Append(selections, [node |-> tp, result |-> result.handler])
           /\ excinfo_by_report' = session_excinfo(excinfo_by_report, tp, item, ref.name,
                                                   Len(result.test.test_runs))
    /\ pc' = "after"
    /\ UNCHANGED <<writerVars, consVars, nodes, objects, ret, settings, known_tests, collected_tests,
                   retry_handlers, test_properties, test, stored_reports, retry_reports,
                   retry_longrepr, executed, item, retry_handler, calls, session_items,
                   cursor, callbacks>>

(* mutant: a suite is finished only after the last item of the session *)
Mutant_suite_ends_at_last(ref, next_ref) == next_ref = NoRef

(* mutant: suites are told apart by their name only *)
Mutant_suite_ends_by_name(ref, next_ref) ==
    next_ref = NoRef \/ ref.suite # next_ref.suite

(* `not next_test_ref or test_ref.suite != next_test_ref.suite` *)
suite_ends(ref, next_ref) ==
    next_ref = NoRef \/ SuiteRef(ref) # SuiteRef(next_ref)

(* `not next_test_ref or test_ref.suite.module != next_test_ref.suite.module` *)
module_ends(ref, next_ref) ==
    next_ref = NoRef \/ ModuleRef(ref) # ModuleRef(next_ref)

(* writer.put_item of a suite, module or session: the serializer calls
   get_status(), which assigns the aggregate on its way *)
put_item(type, st, p) ==
    <<[type |-> type, node |-> p, status |-> after_get_status(nodes, st, p)[p]]>>

(* pytest_runtest_protocol_wrapper after its yield: test.finish(), then the suite
   and the module at their boundaries *)
session_wrapper_after ==
    /\ pc = "after"
    /\ LET ref == session_items[cursor].ref
           next_ref == IF cursor < Len(session_items)
                       THEN session_items[cursor + 1].ref ELSE NoRef
           tp == test_path(ref)
           sp == suite_path(ref)
           mp == module_path(ref)
           fc1 == finish(finish_calls, tp)
           fc2 == IF suite_ends(ref, next_ref) THEN finish(fc1, sp) ELSE fc1
           st2 == IF suite_ends(ref, next_ref) THEN after_get_status(nodes, status, sp)
                  ELSE status
       IN  /\ tests[tp].test_runs # <<>>   \* our protocol ran every item of the session
           /\ tests' = [tests EXCEPT ![tp].finished = TRUE]
           /\ finish_calls' = IF module_ends(ref, next_ref) THEN finish(fc2, mp) ELSE fc2
           /\ status' = IF module_ends(ref, next_ref)
                        THEN after_get_status(nodes, st2, mp) ELSE st2
           /\ put_items' = put_items
                  \o (IF suite_ends(ref, next_ref)
                      THEN put_item("TestSuite", status, sp) ELSE <<>>)
                  \o (IF module_ends(ref, next_ref)
                      THEN put_item("TestModule", st2, mp) ELSE <<>>)
           /\ pc' = IF next_ref = NoRef THEN "done" ELSE "wrapper"
    /\ cursor' = cursor + 1
    /\ UNCHANGED <<writerVars, consVars, nodes, explicit, objects, ret, settings, known_tests,
                   collected_tests, retry_handlers, test_properties, test, stored_reports, excinfo_by_report,
                   retry_reports, retry_longrepr, logged, executed, item, retry_handler,
                   calls, selections, session_items, callbacks>>

(* pytest_sessionfinish: session.finish() and the session event *)
session_sessionfinish ==
    /\ pc = "done"
    /\ finish_calls' = finish(finish_calls, <<>>)
    /\ status' = after_get_status(nodes, status, <<>>)
    /\ put_items' = put_items \o put_item("TestSession", status, <<>>)
    /\ pc' = "finished"
    /\ UNCHANGED <<writerVars, consVars, nodes, explicit, objects, ret, settings, known_tests,
                   collected_tests, retry_handlers, test_properties, test, stored_reports, excinfo_by_report,
                   retry_reports, retry_longrepr, logged, executed, item, retry_handler,
                   calls, selections, session_items, cursor, tests, callbacks>>

NextSession ==
    \/ session_collection_item
    \/ session_finish_collection
    \/ session_wrapper_before
    \/ session_runtest_protocol
    \/ session_wrapper_after
    \/ session_sessionfinish

SpecSession == InitSession /\ [][NextSession]_vars


----------------------------------------------------------------------------
(* Properties of a whole session *)

SessionOver == pc = "finished"

(* the handler _check_applicable_retry_handlers chose for the test at path tp *)
OwnerOf(tp) ==
    LET i == CHOOSE j \in DOMAIN selections : selections[j].node = tp
    IN  selections[i].result

(* the status the suite event was emitted with *)
EmittedStatus(type, p) ==
    LET i == CHOOSE j \in DOMAIN put_items :
                 put_items[j].type = type /\ put_items[j].node = p
    IN  put_items[i].status

ScenarioABC ==
    /\ Len(session_items) = 3
    /\ session_items[1].ref = TestRef("m1", "s1", "A")
    /\ session_items[2].ref = TestRef("m1", "s1", "B")
    /\ session_items[3].ref = TestRef("m1", "s1", "C")
    /\ settings.early_flake_detection
    /\ settings.auto_test_retries
    /\ SessionOver

(* C22: three tests of one suite, A always passing, B always failing and the new
   test C failing twice then passing, with auto test retries and early flake
   detection enabled: A ends with 1 run and PASS, B with 3 runs and FAIL owned by
   auto test retries, C with 3 runs and PASS owned by early flake detection, and
   the suite is emitted with FAIL. *)
C22_ScenarioABC ==
    ScenarioABC =>
        LET a == tests[<<"m1", "s1", "A">>]
            b == tests[<<"m1", "s1", "B">>]
            c == tests[<<"m1", "s1", "C">>]
        IN  /\ Len(a.test_runs) = 1 /\ a.status = PASS
            /\ Len(b.test_runs) = 3 /\ b.status = FAIL
            /\ OwnerOf(<<"m1", "s1", "B">>) = ATR
            /\ Len(c.test_runs) = 3 /\ c.status = PASS
            /\ OwnerOf(<<"m1", "s1", "C">>) = EFD
            /\ EmittedStatus("TestSuite", <<"m1", "s1">>) = FAIL

(* what the scenario ends with *)
ScenarioABC_Outcome ==
    ScenarioABC =>
        /\ \A n \in {"A", "B", "C"} :
              /\ Len(tests[<<"m1", "s1", n>>].test_runs) = RetryCap
              /\ OwnerOf(<<"m1", "s1", n>>) = EFD
        /\ tests[<<"m1", "s1", "A">>].status = PASS
        /\ tests[<<"m1", "s1", "B">>].status = FAIL
        /\ tests[<<"m1", "s1", "C">>].status = PASS
        /\ EmittedStatus("TestSuite", <<"m1", "s1">>) = FAIL

FinishCount(p) == IF p \in DOMAIN finish_calls THEN finish_calls[p] ELSE 0

FinishCountNext(p) == IF p \in DOMAIN finish_calls' THEN finish_calls'[p] ELSE 0

Emissions(items, type, p) ==
    {j \in DOMAIN items : items[j].type = type /\ items[j].node = p}

(* the events of the runs of the tests below node p *)
RunEmissions(items, p) ==
    {j \in DOMAIN items : /\ items[j].type = "TestRun"
                          /\ SubSeq(items[j].node, 1, Len(p)) = p}

SuiteGrouped(its) ==
    \A i, j, k \in DOMAIN its :
        (i < j /\ j < k /\ suite_path(its[i].ref) = suite_path(its[k].ref))
            => suite_path(its[j].ref) = suite_path(its[i].ref)

ModuleGrouped(its) ==
    \A i, j, k \in DOMAIN its :
        (i < j /\ j < k /\ module_path(its[i].ref) = module_path(its[k].ref))
            => module_path(its[j].ref) = module_path(its[i].ref)

(* the step of the wrapper after its yield finishes and emits the node p of the
   current item exactly when the item is the last one or the next item's node at
   that level is another one *)
RollupStep(type, p, q) ==
    LET boundary == cursor = Len(session_items) \/ p # q
        new == {j \in Emissions(put_items', type, p) : j > Len(put_items)}
    IN  /\ boundary => /\ FinishCountNext(p) = FinishCount(p) + 1
                       /\ Cardinality(new) = 1
        /\ ~boundary => /\ FinishCountNext(p) = FinishCount(p)
                        /\ new = {}

FinishedOnce(type, p) ==
    /\ FinishCount(p) = 1
    /\ Cardinality(Emissions(put_items, type, p)) = 1
    /\ \A e \in Emissions(put_items, type, p), r \in RunEmissions(put_items, p) : r < e
    /\ \A tp \in DOMAIN tests : SubSeq(tp, 1, Len(p)) = p => tests[tp].finished

(* C23: after a test finishes, its suite is finished and emitted iff there is no
   next test or the next test is of another suite, and its module iff there is no
   next test or the next test is of another module; when the tests of every suite
   and the suites of every module are delivered together, every suite and every
   module is finished and emitted exactly once, after the last of its tests. *)
C23_RollupByBoundary ==
    /\ [][(pc = "after" /\ pc' # "after" /\ session_items # <<>>) =>
            LET ref == session_items[cursor].ref
                next_ref == IF cursor < Len(session_items)
                            THEN session_items[cursor + 1].ref ELSE NoRef
            IN  /\ tests'[test_path(ref)].finished
                /\ FinishCountNext(test_path(ref)) = FinishCount(test_path(ref)) + 1
                /\ RollupStep("TestSuite", suite_path(ref), suite_path(next_ref))
                /\ RollupStep("TestModule", module_path(ref), module_path(next_ref))]_vars
    /\ []((SessionOver /\ SuiteGrouped(session_items) /\ ModuleGrouped(session_items)) =>
            \A p \in nodes : /\ Len(p) = 2 => FinishedOnce("TestSuite", p)
                             /\ Len(p) = 1 => FinishedOnce("TestModule", p))

C23_Witness ==
    /\ SessionOver
    /\ SuiteGrouped(session_items)
    /\ ModuleGrouped(session_items)
    /\ Len(session_items) = MaxItems
    /\ Cardinality({p \in nodes : Len(p) = 1}) = 2
    /\ \E p \in nodes : Len(p) = 2 /\ Cardinality(children(nodes, p)) >= 2
    /\ \A p \in nodes : Len(p) \in {1, 2} => FinishCount(p) = 1

(* C23 as stated: suite-grouped order alone makes every suite and every module
   finish exactly once *)
C23_SuiteGroupedOnce ==
    (SessionOver /\ SuiteGrouped(session_items)) =>
        \A p \in nodes : /\ Len(p) = 2 => FinishedOnce("TestSuite", p)
                         /\ Len(p) = 1 => FinishedOnce("TestModule", p)

(* C26: finish() is applied at most once to every node of the tree, a finished
   node stays finished, and a new TestRun of a Test never comes with another
   finish() of the Test. *)
C26_DurationSetOnce ==
    /\ [](\A p \in DOMAIN finish_calls : finish_calls[p] <= 1)
    /\ [][\A p \in DOMAIN finish_calls : is_finished(finish_calls', p)]_vars
    /\ [][\A tp \in DOMAIN tests :
            Len(tests'[tp].test_runs) > Len(tests[tp].test_runs)
                => FinishCountNext(tp) = FinishCount(tp)]_vars

(* what holds of finish(): tests, runs and the session are finished once, suites
   and modules once per boundary after one of their tests *)
FinishCalls ==
    /\ \A p \in DOMAIN finish_calls :
          Len(p) \in {0, 3, 4} => finish_calls[p] = 1
    /\ \A p \in DOMAIN finish_calls :
          Len(p) \in {1, 2} =>
              finish_calls[p] <= Cardinality({i \in DOMAIN session_items :
                      SubSeq(test_path(session_items[i].ref), 1, Len(p)) = p})

CallbacksOf(p) == {i \in DOMAIN callbacks : callbacks[i].node = p}

(* C28: an on_new_* callback that raises does not stop discover_test: the triple
   is returned, the new node stays in the tree under its parent, the levels below
   are discovered, and a later discover_test for the same reference returns the
   same nodes and invokes no callback. *)
C28_DiscoveryCallbackFailure ==
    /\ [](\A p \in nodes \ {<<>>} :
            /\ SubSeq(p, 1, Len(p) - 1) \in nodes
            /\ objects[p] = 1
            /\ Cardinality(CallbacksOf(p)) = 1
            /\ Len(p) = 3 => (p \in DOMAIN tests /\ tests[p].exists))
    /\ [](\A i \in DOMAIN callbacks : callbacks[i].node \in nodes)
    /\ [][ret'.op = "discover_test" =>
            /\ \A i \in 1..3 : ret'.value[i] \in nodes'
            /\ nodes \subseteq nodes'
            /\ \A i \in DOMAIN callbacks : callbacks'[i] = callbacks[i]]_vars
    /\ [][(pc = "wrapper" /\ pc' = "protocol") =>
            /\ ret'.value = <<module_path(session_items[cursor].ref),
                              suite_path(session_items[cursor].ref),
                              test_path(session_items[cursor].ref)>>
            /\ UNCHANGED <<nodes, objects, tests, callbacks, collected_tests>>]_vars

C28_Witness ==
    /\ pc = "protocol"
    /\ cursor = 2
    /\ Len(callbacks) > 3
    /\ \A i \in DOMAIN callbacks : callbacks[i].raised
    /\ \A i \in DOMAIN session_items :
          /\ test_path(session_items[i].ref) \in nodes
          /\ Cardinality(CallbacksOf(test_path(session_items[i].ref))) = 1

(* C34: every TestRun of every test of the session is handed to writer.put_item
   exactly once, whether the test ran once or was retried: no run is omitted and
   no run, in particular the initial attempt of a retried test, is enqueued
   twice. *)
C34_EveryRunEnqueuedOnce ==
    SessionOver =>
        \A tp \in DOMAIN tests :
            \A i \in DOMAIN tests[tp].test_runs :
                Cardinality(RunEmissions(put_items,
                    Append(tp, tests[tp].test_runs[i].attempt_number))) = 1

(* the events of type `type` of the nodes below node p *)
EmissionsBelow(items, type, p) ==
    {j \in DOMAIN items : /\ items[j].type = type
                          /\ Len(items[j].node) >= Len(p)
                          /\ SubSeq(items[j].node, 1, Len(p)) = p}

RollUpOrder ==
    \A j \in DOMAIN put_items :
        /\ put_items[j].type = "TestSuite" =>
               \A i \in EmissionsBelow(put_items, "TestRun", put_items[j].node) : i < j
        /\ put_items[j].type = "TestModule" =>
               \A i \in EmissionsBelow(put_items, "TestSuite", put_items[j].node) : i < j
        /\ put_items[j].type = "TestSession" => j = Len(put_items)

(* C36: all TestRun events of a suite's tests are enqueued before the suite's
   event, every suite event of a module before the module's event and the session
   event after every module event; the session node is finished, and enqueued as
   the last event in the main process only, never on an xdist worker. *)
C36_RollUpOrdering ==
    /\ RollUpOrder
    /\ is_xdist_worker => Emissions(put_items, "TestSession", <<>>) = {}
    /\ SessionOver =>
           /\ FinishCount(<<>>) = 1
           /\ ~is_xdist_worker =>
                  Emissions(put_items, "TestSession", <<>>) = {Len(put_items)}

(* the part of C36 that the code keeps: in the main process, when the items of
   every suite and of every module are delivered together *)
RollUpOrderGrouped ==
    (~is_xdist_worker /\ SuiteGrouped(session_items) /\ ModuleGrouped(session_items))
        => C36_RollUpOrdering

(* on an xdist worker the session is still finished exactly once and its event is
   still enqueued, as the last event *)
WorkerSessionEnqueued ==
    SessionOver =>
        /\ FinishCount(<<>>) = 1
        /\ Emissions(put_items, "TestSession", <<>>) = {Len(put_items)}

(* how many times the delivery order leaves the suite at path sp: an item of the
   suite that is the last item or is followed by an item of another suite *)
BoundaryCrossings(its, sp) ==
    Cardinality({i \in DOMAIN its :
        /\ suite_path(its[i].ref) = sp
        /\ (i = Len(its) \/ suite_path(its[i + 1].ref) # sp)})

(* C37: the boundary detection finishes and emits a suite once per boundary
   crossing: after the session every suite has been finished, and its event
   enqueued, as many times as the delivery order leaves it, so a suite whose
   tests are delivered interleaved with another suite's is finished (its
   duration overwritten) and emitted more than once. *)
C37_InterleavedSuiteFinishedAgain ==
    SessionOver =>
        /\ \A i \in DOMAIN session_items :
              LET sp == suite_path(session_items[i].ref)
              IN  /\ FinishCount(sp) = BoundaryCrossings(session_items, sp)
                  /\ Cardinality(Emissions(put_items, "TestSuite", sp))
                        = BoundaryCrossings(session_items, sp)
        /\ ~SuiteGrouped(session_items) =>
              \E i \in DOMAIN session_items :
                  LET sp == suite_path(session_items[i].ref)
                  IN  /\ FinishCount(sp) > 1
                      /\ Cardinality(Emissions(put_items, "TestSuite", sp)) > 1

C37_Witness ==
    /\ SessionOver
    /\ Len(session_items) = 3
    /\ suite_path(session_items[1].ref) = suite_path(session_items[3].ref)
    /\ suite_path(session_items[2].ref) # suite_path(session_items[1].ref)
    /\ FinishCount(suite_path(session_items[1].ref)) = 2
    /\ Cardinality(Emissions(put_items, "TestSuite", suite_path(session_items[1].ref))) = 2
    /\ FinishCount(suite_path(session_items[2].ref)) = 1

----------------------------------------------------------------------------
(* The known-tests catalog (specification SpecDiscovery): the sessions of
   SpecSession in the main process, with callbacks that do not raise, once with
   the catalog get_known_tests returned and once with an empty catalog
   (known tests disabled, or the fetch returned nothing) *)

InitDiscovery ==
    /\ pc = "collection"
    /\ settings \in SessionSettings
    /\ known_tests \in {{}, {r \in SessionRefs : r.name # "C"}}
    /\ test_properties = TestPropertiesDefault
    /\ collected_tests = {}
    /\ retry_handlers = <<>>
    /\ test = NoTest
    /\ stored_reports = None
    /\ excinfo_by_report = <<>>
    /\ retry_reports = None
    /\ retry_longrepr = None
    /\ logged = <<>>
    /\ executed = <<>>
    /\ item = NoItem
    /\ retry_handler = None
    /\ calls = {}
    /\ selections = <<>>
    /\ put_items = <<>>
    /\ TreeIdle
    /\ WriterIdle
    /\ \E l \in SessionLayouts :
          session_items = [i \in DOMAIN l |-> [ref |-> l[i], raises |-> {}]] \o <<>>
    /\ cursor = 1
    /\ tests = <<>>
    /\ finish_calls = <<>>
    /\ callbacks = <<>>
    /\ git_tags = GitTags
    /\ is_xdist_worker = FALSE
    /\ api_calls = <<>>
    /\ raised = None

SpecDiscovery == InitDiscovery /\ [][NextSession]_vars

(* the TestRefs of the Test nodes that exist *)
CreatedTestRefs == {r \in SessionRefs : test_path(r) \in nodes}

(* C40: with an empty known-tests catalog no discovered test is new and the
   Early Flake Detection handler is not installed, even when the settings enable
   it; with a non-empty catalog a discovered test is new exactly when its TestRef
   is not in the catalog; collected_tests is exactly the set of the TestRefs of
   the Test nodes created so far. *)
C40_KnownTestsCatalog ==
    /\ known_tests = {} =>
          /\ \A tp \in DOMAIN tests : ~tests[tp].is_new
          /\ \A i \in DOMAIN retry_handlers : retry_handlers[i] # EFD
    /\ known_tests # {} =>
          \A r \in CreatedTestRefs :
              /\ test_path(r) \in DOMAIN tests
              /\ tests[test_path(r)].is_new <=> r \notin known_tests
    /\ collected_tests = CreatedTestRefs

C40_Witness ==
    /\ SessionOver
    /\ known_tests = {}
    /\ settings.early_flake_detection
    /\ retry_handlers = <<ATR>>
    /\ Cardinality(collected_tests) = 2
    /\ \E r \in collected_tests : r.name = "C" /\ ~tests[test_path(r)].is_new

----------------------------------------------------------------------------
(* SessionManager.__init__, one catalog call after the other, each answered or
   failing, followed by the protocol of the one item *)

(* Settings() with known_tests_enabled, which decides the known-tests call *)
SettingsDisabled ==
    [test_management |-> FALSE, early_flake_detection |-> FALSE,
     auto_test_retries |-> FALSE, faulty_session_threshold |-> FaultySessionThreshold,
     known_tests_enabled |-> FALSE]

(* what the catalog answers when it is reachable *)
SettingsAnswer ==
    [test_management |-> TRUE, early_flake_detection |-> TRUE,
     auto_test_retries |-> TRUE, faulty_session_threshold |-> FaultySessionThreshold,
     known_tests_enabled |-> TRUE]

SkippableDefault == <<{}, None>>

api_call(name, ok, value) == <<[call |-> name, ok |-> ok, value |-> value]>>

InitConstruction ==
    /\ pc = "get_settings"
    /\ settings = SettingsDisabled
    /\ known_tests = {}
    /\ test_properties = TestPropertiesDefault
    /\ collected_tests = {}
    /\ retry_handlers = <<>>
    /\ test = NoTest
    /\ stored_reports = None
    /\ excinfo_by_report = <<>>
    /\ retry_reports = None
    /\ retry_longrepr = None
    /\ logged = <<>>
    /\ executed = <<>>
    /\ item = NoItem
    /\ retry_handler = None
    /\ calls = {}
    /\ selections = <<>>
    /\ put_items = <<>>
    /\ TreeIdle
    /\ WriterIdle
    /\ session_items = <<>>
    /\ cursor = 0
    /\ tests = <<>>
    /\ finish_calls = <<>>
    /\ callbacks = <<>>
    /\ git_tags \in {GitTags, {}}
    /\ is_xdist_worker = FALSE
    /\ api_calls = <<>>
    /\ raised = None

(* the request_data of a catalog call is built before its try block *)
request_data(tags, keys) == keys \subseteq tags

(* APIClient.get_settings: the answer, Settings() on any exception of the call *)
get_settings(ok) == IF ok THEN SettingsAnswer ELSE SettingsDisabled

(* APIClient.get_known_tests: the known tests, set() on any exception *)
get_known_tests(ok) == IF ok THEN {"t2"} ELSE {}

(* APIClient.get_test_management_properties: the properties of the item, those
   of an empty map on failure *)
get_test_management_properties(ok) ==
    IF ok THEN [TestPropertiesDefault EXCEPT !.quarantined = TRUE]
    ELSE TestPropertiesDefault

(* APIClient.get_skippable_tests: the skippable items and the correlation id *)
get_skippable_tests(ok) == IF ok THEN <<{"t2"}, "correlation">> ELSE SkippableDefault

(* self.settings = self.api_client.get_settings() *)
construct_get_settings ==
    /\ pc = "get_settings"
    /\ IF ~request_data(git_tags, {"repository_url", "sha", "branch"})
       THEN /\ raised' = "KeyError"
            /\ pc' = "raised"
            /\ UNCHANGED <<settings, api_calls>>
       ELSE \E ok \in BOOLEAN :
                /\ settings' = get_settings(ok)
                /\ api_calls' = api_calls \o api_call("get_settings", ok, settings')
                /\ pc' = "get_known_tests"
                /\ UNCHANGED raised
    /\ UNCHANGED <<treeVars, writerVars, known_tests, collected_tests, retry_handlers,
                   test_properties, test, stored_reports, excinfo_by_report, retry_reports, retry_longrepr,
                   logged, executed, item, retry_handler, calls, selections, put_items,
                   session_items, cursor, tests, finish_calls, callbacks, git_tags, is_xdist_worker>>

(* self.known_tests = self.api_client.get_known_tests() if
   self.settings.known_tests_enabled else set() *)
construct_get_known_tests ==
    /\ pc = "get_known_tests"
    /\ IF ~settings.known_tests_enabled
       THEN /\ known_tests' = {}
            /\ pc' = "get_test_management_properties"
            /\ UNCHANGED <<api_calls, raised>>
       ELSE IF ~request_data(git_tags, {"repository_url"})
       THEN /\ raised' = "KeyError"
            /\ pc' = "raised"
            /\ UNCHANGED <<known_tests, api_calls>>
       ELSE \E ok \in BOOLEAN :
                /\ known_tests' = get_known_tests(ok)
                /\ api_calls' = api_calls \o api_call("get_known_tests", ok, known_tests')
                /\ pc' = "get_test_management_properties"
                /\ UNCHANGED raised
    /\ UNCHANGED <<treeVars, writerVars, settings, collected_tests, retry_handlers,
                   test_properties, test, stored_reports, excinfo_by_report, retry_reports, retry_longrepr,
                   logged, executed, item, retry_handler, calls, selections, put_items,
                   session_items, cursor, tests, finish_calls, callbacks, git_tags, is_xdist_worker>>

(* self.test_properties = self.api_client.get_test_management_properties() if
   self.settings.test_management.enabled else {} *)
construct_get_test_management_properties ==
    /\ pc = "get_test_management_properties"
    /\ IF ~settings.test_management
       THEN /\ test_properties' = TestPropertiesDefault
            /\ UNCHANGED api_calls
       ELSE \E ok \in BOOLEAN :
                /\ test_properties' = get_test_management_properties(ok)
                /\ api_calls' = api_calls
                      \o api_call("get_test_management_properties", ok, test_properties')
    /\ pc' = "upload_git_data"
    /\ UNCHANGED <<treeVars, writerVars, settings, known_tests, collected_tests,
                   retry_handlers, test, stored_reports, excinfo_by_report, retry_reports, retry_longrepr,
                   logged, executed, item, retry_handler, calls, selections, put_items,
                   session_items, cursor, tests, finish_calls, callbacks, git_tags, is_xdist_worker, raised>>

(* self.upload_git_data_and_get_skippable_tests(): Git(), the known commits, the
   pack files and the skippable tests, outside any try block; then the handler
   list is left empty until the end of collection *)
upload_git_data_and_get_skippable_tests ==
    /\ pc = "upload_git_data"
    /\ IF git_tags = {}
       THEN /\ raised' = "RuntimeError"
            /\ pc' = "raised"
            /\ UNCHANGED api_calls
       ELSE \E commits_ok, pack_ok, skippable_ok \in BOOLEAN :
                /\ api_calls' = api_calls
                      \o api_call("get_known_commits", commits_ok,
                                  IF commits_ok THEN {"c1"} ELSE {})
                      \o api_call("send_git_pack_file", pack_ok, None)
                      \o api_call("get_skippable_tests", skippable_ok,
                                  get_skippable_tests(skippable_ok))
                /\ pc' = "collection"
                /\ UNCHANGED raised
    /\ UNCHANGED <<treeVars, writerVars, settings, known_tests, collected_tests,
                   retry_handlers, test_properties, test, stored_reports, excinfo_by_report, retry_reports,
                   retry_longrepr, logged, executed, item, retry_handler, calls,
                   selections, put_items, session_items, cursor, tests, finish_calls,
                   callbacks, git_tags, is_xdist_worker>>

NextConstruction ==
    \/ construct_get_settings
    \/ construct_get_known_tests
    \/ construct_get_test_management_properties
    \/ upload_git_data_and_get_skippable_tests
    \/ Next

SpecConstruction == InitConstruction /\ [][NextConstruction]_vars

----------------------------------------------------------------------------
(* Properties of the construction *)

Constructing ==
    pc \in {"get_settings", "get_known_tests", "get_test_management_properties",
            "upload_git_data"}

FailedCalls == {i \in DOMAIN api_calls : ~api_calls[i].ok}

(* a failed call returned the default of its kind *)
DefaultReturned(c) ==
    CASE c.call = "get_settings" -> c.value = SettingsDisabled
      [] c.call = "get_known_tests" -> c.value = {}
      [] c.call = "get_test_management_properties" -> c.value = TestPropertiesDefault
      [] c.call = "get_known_commits" -> c.value = {}
      [] c.call = "send_git_pack_file" -> c.value = None
      [] c.call = "get_skippable_tests" -> c.value = SkippableDefault

(* C27: whichever catalog call of SessionManager.__init__ fails, the call returns
   its default, no exception leaves the constructor, and the manager holds the
   defaults: every feature disabled, no known tests, no test properties. *)
C27_CollaboratorFailureNotFatal ==
    /\ raised = None
    /\ pc # "raised"
    /\ \A i \in FailedCalls : DefaultReturned(api_calls[i])
    /\ (~Constructing /\ \E i \in FailedCalls : api_calls[i].call = "get_settings")
           => /\ ~settings.early_flake_detection
              /\ ~settings.auto_test_retries
              /\ ~settings.test_management
              /\ known_tests = {}
              /\ test_properties = TestPropertiesDefault

(* what holds: with the tags of a git checkout, every failing call returns its
   default and the constructor returns *)
ConstructionDegrades ==
    git_tags = GitTags => C27_CollaboratorFailureNotFatal

(* the session runs its item after a construction in which every call failed *)
DegradedSessionRuns ==
    /\ pc = "finished"
    /\ Cardinality(FailedCalls) = 4
    /\ Len(test.test_runs) = 1
    /\ last_test_run(test).finished

----------------------------------------------------------------------------
(* The protocol of an item no retry policy applies to, next to the writer: the
   orchestrating thread enqueues, the flush thread sends, and sending may fail *)

InitTelemetry ==
    /\ pc = "collection"
    /\ settings \in {SettingsDefault, [SettingsDefault EXCEPT !.auto_test_retries = TRUE]}
    /\ known_tests = {}
    /\ test_properties \in {TestPropertiesDefault,
                            [TestPropertiesDefault EXCEPT !.quarantined = TRUE]}
    /\ collected_tests = {}
    /\ retry_handlers = <<>>
    /\ test = NoTest
    /\ stored_reports = None
    /\ excinfo_by_report = <<>>
    /\ retry_reports = None
    /\ retry_longrepr = None
    /\ logged = <<>>
    /\ executed = <<>>
    /\ item = NoItem
    /\ retry_handler = None
    /\ calls = {}
    /\ selections = <<>>
    /\ put_items = <<>>
    /\ TreeIdle
    /\ SessionIdle
    /\ lock = Unlocked
    /\ lists = <<<<>>>>
    /\ self_events = 1
    /\ ppc = [p \in Producers |-> "idle"]
    /\ pref = [p \in Producers |-> 0]
    /\ pnext = [p \in Producers |-> IF p = 1 THEN 0 ELSE EventsPerProducer]
    /\ cpc = "waiting"
    /\ cref = 0
    /\ sent = <<>>
    /\ nflush = 0
    /\ failed = {}
    /\ should_finish = FALSE
    /\ mpc = "running"

NextTelemetry ==
    \/ pytest_collection_finish
    \/ pytest_runtest_protocol_wrapper_before
    \/ do_test_runs
    \/ other_runtest_protocol
    \/ pytest_runtest_protocol_wrapper_after
    \/ pytest_sessionfinish
    \/ NextWriterFaults

SpecTelemetry == InitTelemetry /\ [][NextTelemetry]_vars

(* the reports of execution g as the host is to see them: every phase that has a
   report, in the order setup, call, teardown, the report as runtestprotocol made it *)
Forwarded(g) ==
    (IF g.setup # NoReport THEN <<[when |-> "setup"] @@ g.setup>> ELSE <<>>)
    \o (IF g.call # NoReport THEN <<[when |-> "call"] @@ g.call>> ELSE <<>>)
    \o (IF g.teardown # NoReport THEN <<[when |-> "teardown"] @@ g.teardown>> ELSE <<>>)

OurProtocolRan == ProtocolOver /\ selections # <<>>

(* C29: a test that is neither quarantined nor disabled and that no retry policy
   applies to is executed once, and the setup, call and teardown reports of that
   execution reach the host in that order with their outcomes as they were,
   whatever the writer and its flush thread do meanwhile. *)
C29_TelemetryKeepsHostOutcomes ==
    /\ [](logged # <<>> => Len(executed) = 1)
    /\ []((OurProtocolRan /\ ~test.is_quarantined /\ ~test.is_disabled) =>
            /\ retry_handler = None
            /\ Len(executed) = 1
            /\ Len(test.test_runs) = 1
            /\ logged = Forwarded(executed[1])
            /\ \A i \in DOMAIN logged : /\ logged[i].dd_retry_outcome = None
                                        /\ logged[i].dd_retry_reason = None)
    /\ [][(OurProtocolRan /\ OurProtocolRan') => UNCHANGED <<logged, executed>>]_vars

C29_Witness ==
    /\ OurProtocolRan
    /\ pc = "finished"
    /\ ~test.is_quarantined
    /\ cpc = "died"
    /\ failed # {}
    /\ Len(executed) = 1
    /\ executed[1].call.outcome = FAILED
    /\ logged = Forwarded(executed[1])

----------------------------------------------------------------------------
(* Skippable tests: the session of one item with the skippable items the catalog
   returned to SessionManager.__init__ (specification SpecSkipping) *)

SKIPPED_BY_ITR_REASON == "Skipped by Datadog"

(* what get_skippable_tests can return: tests and suites, among them a suite of
   the same name in another module *)
SkippableCandidates ==
    {TestRef("m1", "s1", "A"), SuiteRef(TestRef("m1", "s1", "A")),
     SuiteRef(TestRef("m2", "s1", "C")), TestRef("m1", "s2", "B")}

(* self.skippable_items: set() until get_skippable_tests returned, then the set
   it returned *)
skippable_items(ac) ==
    IF \E i \in DOMAIN ac : ac[i].call = "get_skippable_tests"
    THEN ac[CHOOSE i \in DOMAIN ac : ac[i].call = "get_skippable_tests"].value[1]
    ELSE {}

(* SessionManager.is_skippable_test *)
is_skippable_test(s, items, test_ref) ==
    IF ~s.skipping_enabled THEN FALSE
    ELSE test_ref \in items \/ SuiteRef(test_ref) \in items

InitSkipping ==
    /\ pc = "collection"
    /\ settings \in {[skipping_enabled |-> b] @@ SettingsDefault : b \in BOOLEAN}
    /\ known_tests = {}
    /\ test_properties \in {TestPropertiesDefault,
                            [TestPropertiesDefault EXCEPT !.attempt_to_fix = TRUE]}
    /\ collected_tests = {}
    /\ retry_handlers = <<>>
    /\ test = NoTest
    /\ stored_reports = None
    /\ excinfo_by_report = <<>>
    /\ retry_reports = None
    /\ retry_longrepr = None
    /\ logged = <<>>
    /\ executed = <<>>
    /\ item = NoItem
    /\ retry_handler = None
    /\ calls = {}
    /\ selections = <<>>
    /\ put_items = <<>>
    /\ TreeIdle
    /\ WriterIdle
    /\ \E r \in SessionRefs : session_items = <<[ref |-> r, raises |-> {}]>>
    /\ cursor = 1
    /\ tests = <<>>
    /\ finish_calls = <<>>
    /\ callbacks = <<>>
    /\ git_tags = GitTags
    /\ is_xdist_worker = FALSE
    /\ \E items \in SUBSET SkippableCandidates :
          api_calls = api_call("get_skippable_tests", TRUE, <<items, "correlation">>)
    /\ raised = None

SpecSkipping == InitSkipping /\ [][NextSession]_vars

(* the wrapper has applied its gates to the current item *)
SkipGatePassed == pc \in {"protocol", "after"}

(* C32: is_skippable_test(test_ref) is true iff skipping is enabled and the test,
   or its suite (same module and same suite name), is in skippable_items; the
   item carries the skip marker of the skip gate iff is_skippable_test is true
   and the test is not attempt_to_fix. *)
C32_SkippableDecision ==
    SkipGatePassed =>
        LET ref == session_items[cursor].ref
            items == skippable_items(api_calls)
            skippable == is_skippable_test(settings, items, ref)
        IN  /\ skippable <=> (/\ settings.skipping_enabled
                              /\ \/ ref \in items
                                 \/ [module |-> ref.module, name |-> ref.suite] \in items)
            /\ item.skip_marker = SKIPPED_BY_ITR_REASON
                   <=> (skippable /\ ~tests[test_path(ref)].is_attempt_to_fix)

----------------------------------------------------------------------------
(* _get_test_outcome on any stored report group (specification SpecOutcome): a
   phase may have no report, and a report may have been saved with the exception
   info None, as for a report whose outcome another plugin's
   pytest_runtest_makereport has set *)

OptionalReports == {NoReport} \cup {ReportOf(o, "reason") : o \in {PASSED, FAILED, SKIPPED}}

OutcomeGroups == [setup : OptionalReports, call : OptionalReports, teardown : OptionalReports]

(* the exception info saved for the report of phase when, None when it has none *)
excinfo_get(excinfos, node, n) ==
    [when \in {"setup", "call", "teardown"} |->
        IF <<node, n, when>> \in DOMAIN excinfos THEN excinfos[<<node, n, when>>]
        ELSE NoExcinfo]

InitOutcome ==
    /\ TreeIdle
    /\ SessionIdle
    /\ WriterIdle
    /\ pc = "reports"
    /\ settings = SettingsDefault
    /\ known_tests = {}
    /\ test_properties = TestPropertiesDefault
    /\ collected_tests = {}
    /\ retry_handlers = <<>>
    /\ test = make_test_run(NoTest)
    /\ stored_reports \in OutcomeGroups
    /\ \E with_excinfo \in SUBSET {"setup", "call", "teardown"} :
          excinfo_by_report =
              [k \in {<<ItemRef, 1, when>> : when \in {w \in {"setup", "call", "teardown"} :
                                                 stored_reports[w] # NoReport}} |->
                  IF k[3] \in with_excinfo /\ stored_reports[k[3]].outcome # PASSED
                  THEN ExceptionInfo("exc", stored_reports[k[3]].longrepr)
                  ELSE NoExcinfo]
    /\ retry_reports = None
    /\ retry_longrepr = None
    /\ logged = <<>>
    /\ executed = <<stored_reports>>
    /\ item = NoItem
    /\ retry_handler = None
    /\ calls = {}
    /\ selections = <<>>
    /\ put_items = <<>>

(* status, tags = self._get_test_outcome(item.nodeid); test_run.set_status(status);
   test_run.set_tags(tags), for the TestRun made before the execution; an
   exception of _get_test_outcome leaves the TestRun as it was made *)
outcome_get_test_outcome ==
    /\ pc = "reports"
    /\ LET outcome == get_test_outcome_from(stored_reports,
                                            excinfo_get(excinfo_by_report, ItemRef, 1), 1)
       IN  /\ stored_reports' = None
           /\ excinfo_by_report' =
                  [k \in DOMAIN excinfo_by_report
                         \ {<<ItemRef, 1, when>> : when \in outcome.popped} |->
                      excinfo_by_report[k]]
           /\ IF outcome.raised # None
              THEN /\ raised' = outcome.raised
                   /\ pc' = "raised"
                   /\ UNCHANGED test
              ELSE /\ test' = add_tags_last_run(set_last_run(test, "status", outcome.status),
                                                outcome.tags)
                   /\ pc' = "outcome"
                   /\ UNCHANGED raised
    /\ UNCHANGED <<treeVars, writerVars, session_items, cursor, tests, finish_calls,
                   callbacks, git_tags, is_xdist_worker, api_calls, settings, known_tests, collected_tests,
                   retry_handlers, test_properties, retry_reports, retry_longrepr, logged,
                   executed, item, retry_handler, calls, selections, put_items>>

NextOutcome == outcome_get_test_outcome

SpecOutcome == InitOutcome /\ [][NextOutcome]_vars

(* the phases of a group, in the order setup, call, teardown, whose report failed
   or was skipped *)
DecidingPhases(g) ==
    {i \in DOMAIN TestPhase :
        g[TestPhase[i]] # NoReport /\ g[TestPhase[i]].outcome \in {FAILED, SKIPPED}}

(* C33: scanning the phases in the order setup, call, teardown (absent phases
   skipped), the first phase that failed or was skipped decides the run: FAIL with
   the error tags if it failed, SKIP with the skip-reason tag if it was skipped,
   the reason being "Unknown skip reason", not an error, when the skipped phase
   has no exception info; PASS with no tags if no phase failed or was skipped. *)
C33_RunOutcomeFromPhases ==
    [][pc = "reports" =>
          LET g == stored_reports
              run == last_test_run(test')
              i == CHOOSE j \in DecidingPhases(g) : \A k \in DecidingPhases(g) : j <= k
              e == excinfo_get(excinfo_by_report, ItemRef, 1)[TestPhase[i]]
          IN  IF DecidingPhases(g) = {}
              THEN pc' = "outcome" /\ run.status = PASS /\ run.tags = {}
              ELSE IF g[TestPhase[i]].outcome = SKIPPED
              THEN /\ pc' = "outcome"
                   /\ run.status = SKIP
                   /\ run.tags = {<<"test.skip_reason",
                                    IF e = NoExcinfo THEN "Unknown skip reason"
                                    ELSE e.value>>}
              ELSE e # NoExcinfo =>
                       /\ pc' = "outcome"
                       /\ run.status = FAIL
                       /\ {kv[1] : kv \in run.tags}
                              = {"error.stack", "error.type", "error.message"}]_vars

====
